---------------------------- MODULE Spec2Model ----------------------------
(***************************************************************************)
(* A model of lsf.py (ls + find): the typed scalars (FileSize, Unixtime,   *)
(* Uid, Gid) and their string parsers, the filter predicates registered by *)
(* FileStats.add_filter and evaluated by FileStats.passes_filters, and     *)
(* sort_stats.                                                             *)
(*                                                                         *)
(* A Python string is a sequence of one-character strings:                 *)
(* "10k" is <<"1","0","k">>.  A call that can raise returns a record whose *)
(* field exc names the exception ("none" when the call returns).           *)
(***************************************************************************)
EXTENDS Integers, Sequences, FiniteSets, TLC

VARIABLES
    pc,               \* where the run stands
    argv,             \* the filter options of the command line, in order
    argi,             \* index of the next option argparse converts
    filter_list,      \* FileStats.filter_list
    prev_filter_list, \* filter_list as it was before the latest add_filter call
    known,            \* the memo tables: Unixtime.known_strings, FileSize.known_strings,
                      \* Uid.known_usernames, Gid.known_groups
    now,              \* time.time(), in whole seconds
    rec,              \* the record passes_filters was last applied to
    outcome,          \* what that call did: "pass", "fail" or "fault"
    evaluated,        \* the indices of the predicates that call evaluated, in order
    call_log,         \* the calls of Unixtime.str_to_secs made so far
    input,            \* the arguments of the function under study
    result,           \* what it returned or raised
    statlist,         \* the list handed to sort_stats; in a traversal, the list
                      \* show_paths is collecting
    sorted,           \* the list sort_stats returned
    OPTS,             \* the options of the run, as main leaves them
    paths,            \* OPTS.paths: the starting paths
    pathi,            \* index of the next starting path show_paths takes
    last_dir,         \* show_paths' last_dir: {} for None, else {the directory name}
    log,              \* what the run has done so far, in order: directories listed,
                      \* calls of display_statlist, lines printed, errors written,
                      \* commands handed to OS_command.execute and to os.system
    totals,           \* the globals TOTFILES, TOTSIZE, GTOTFILES and GTOTSIZE
    python3,          \* whether the interpreter is Python 3 (else Python 2)
    faults,           \* the directories that cannot be listed and the entries
                      \* that cannot be stat'ed
    with_prompting,   \* OPTS.os_command.with_prompting
    response          \* what the user answers to the prompts of OS_command.execute

show_vars == <<OPTS, paths, pathi, last_dir, log, totals, python3, faults,
               with_prompting, response>>

vars == <<pc, argv, argi, filter_list, prev_filter_list, known, now, rec, outcome,
          evaluated, call_log, input, result, statlist, sorted, show_vars>>

None == "None"

\* The clock when the program starts (the time of Unixtime's doctest).
NowBase == 1412966220

\* A memo table with no entry.
EmptyTab == [s \in {} |-> 0]

---------------------------------------------------------------------------
(* Strings                                                                 *)

DigitChars == {"0", "1", "2", "3", "4", "5", "6", "7", "8", "9"}

DigitValue(c) ==
    CASE c = "0" -> 0 [] c = "1" -> 1 [] c = "2" -> 2 [] c = "3" -> 3 [] c = "4" -> 4
      [] c = "5" -> 5 [] c = "6" -> 6 [] c = "7" -> 7 [] c = "8" -> 8 [] c = "9" -> 9

\* The value of a sequence of digits, most significant first.
RECURSIVE DigitsValue(_)
DigitsValue(s) ==
    IF s = <<>> THEN 0
    ELSE 10 * DigitsValue(SubSeq(s, 1, Len(s) - 1)) + DigitValue(s[Len(s)])

RECURSIVE Pow10(_)
Pow10(n) == IF n = 0 THEN 1 ELSE 10 * Pow10(n - 1)

\* str.lower() on one character, for the letters the model uses.
Lower(c) ==
    CASE c = "B" -> "b" [] c = "K" -> "k" [] c = "M" -> "m" [] c = "G" -> "g"
      [] c = "H" -> "h" [] c = "D" -> "d" [] c = "W" -> "w" [] c = "Y" -> "y"
      [] OTHER -> c

\* All sequences over alphabet of length at most n.
RECURSIVE StringsUpTo(_, _)
StringsUpTo(alphabet, n) ==
    IF n = 0 THEN {<<>>}
    ELSE LET shorter == StringsUpTo(alphabet, n - 1)
         IN  shorter \cup {Append(s, c) : s \in shorter, c \in alphabet}

\* str.split(','): the pieces between the commas, empty pieces kept.
RECURSIVE Split(_)
Split(s) ==
    IF \A i \in 1..Len(s) : s[i] # ","
    THEN <<s>>
    ELSE LET k == CHOOSE i \in 1..Len(s) :
                      s[i] = "," /\ \A j \in 1..(i - 1) : s[j] # ","
         IN  <<SubSeq(s, 1, k - 1)>> \o Split(SubSeq(s, k + 1, Len(s)))

\* Python's float(s) for an unsigned decimal literal: digits with at most one
\* point and at least one digit.  The value is IntPart + FracPart / FracDen.
FloatOK(s) ==
    /\ \A i \in 1..Len(s) : s[i] \in DigitChars \cup {"."}
    /\ Cardinality({i \in 1..Len(s) : s[i] = "."}) <= 1
    /\ \E i \in 1..Len(s) : s[i] \in DigitChars

PointAt(s) ==
    IF \E i \in 1..Len(s) : s[i] = "."
    THEN CHOOSE i \in 1..Len(s) : s[i] = "."
    ELSE Len(s) + 1

IntPart(s) == DigitsValue(SubSeq(s, 1, PointAt(s) - 1))
FracPart(s) == DigitsValue(SubSeq(s, PointAt(s) + 1, Len(s)))
FracDen(s) == Pow10(IF PointAt(s) > Len(s) THEN 0 ELSE Len(s) - PointAt(s))

\* int(float(s) * mult): the scaled value truncated to an integer.
ScaleTrunc(s, mult) ==
    IntPart(s) * mult
      + FracPart(s) * (mult \div FracDen(s))
      + (FracPart(s) * (mult % FracDen(s))) \div FracDen(s)

\* Python's int(s) for an unsigned decimal literal.
IntOK(s) == Len(s) > 0 /\ \A i \in 1..Len(s) : s[i] \in DigitChars

Returned(v) == [exc |-> "none", val |-> v]
Raised(e) == [exc |-> e, val |-> None]

---------------------------------------------------------------------------
(* Typed scalars: FileSize                                                 *)

SizeMultiplier(modifier) ==
    CASE modifier = "b" -> 512
      [] modifier = "k" -> 1024
      [] modifier = "m" -> 1024 * 1024
      [] modifier = "g" -> 1024 * 1024 * 1024
      [] OTHER -> 1

\* The suffix test of FileSize.from_string: modifier not in "bkmg".
SizeModifierChars == {"b", "k", "m", "g"}

\* FileSize.from_string(size_str) with FileSize.known_strings = tab.
\* Returns [exc, val, tab]: the exception or the value, and the table after.
FileSize_from_string(size_str, tab) ==
    IF size_str \in DOMAIN tab
    THEN [exc |-> "none", val |-> tab[size_str], tab |-> tab]
    ELSE IF size_str = <<>>
    THEN [exc |-> "IndexError", val |-> None, tab |-> tab]
    ELSE LET last == size_str[Len(size_str)]
             modifier == IF last \in SizeModifierChars THEN last ELSE ""
             size == IF modifier = "" THEN size_str
                     ELSE SubSeq(size_str, 1, Len(size_str) - 1)
         IN  IF ~FloatOK(size)
             THEN [exc |-> "ValueError", val |-> None, tab |-> tab]
             ELSE LET v == ScaleTrunc(size, SizeMultiplier(modifier))
                  IN  [exc |-> "none", val |-> v, tab |-> (size_str :> v) @@ tab]

---------------------------------------------------------------------------
(* Typed scalars: Unixtime                                                 *)

TimeModifierChars == {"m", "h", "d", "w", "y"}

TimeMultiplier(modifier) ==
    CASE modifier = "m" -> 60
      [] modifier = "h" -> 60 * 60
      [] modifier = "d" -> 60 * 60 * 24
      [] modifier = "w" -> 60 * 60 * 24 * 7
      [] modifier = "y" -> 60 * 60 * 24 * 365

\* Unixtime.reltime_to_secs(time_str).
Unixtime_reltime_to_secs(time_str) ==
    IF time_str = <<>> THEN Raised("IndexError")
    ELSE LET last == Lower(time_str[Len(time_str)])
             modifier == IF last \in TimeModifierChars THEN last ELSE "d"
             secs == IF last \in TimeModifierChars
                     THEN SubSeq(time_str, 1, Len(time_str) - 1)
                     ELSE time_str
         IN  IF ~FloatOK(secs) THEN Raised("ValueError")
             ELSE Returned(ScaleTrunc(secs, TimeMultiplier(modifier)))

\* time.mktime(time.strptime(time_str, time_format)) for a string without white
\* space: both formats ("%b %d %Y %H:%M" and "%b %d %Y") need at least two blanks,
\* so the string does not match.  The model's strings hold no white space.
mktime_strptime(time_str) == Raised("ValueError")

\* Unixtime.str_to_secs without the lookup in known_strings: every call parses.
Unixtime_str_to_secs_no_lookup(time_str, tab, clock) ==
    LET rel == Unixtime_reltime_to_secs(time_str)
        got == IF rel.exc = "none" THEN Returned(clock - rel.val)
               ELSE IF rel.exc = "ValueError" THEN mktime_strptime(time_str)
               ELSE rel
    IN  IF got.exc = "none"
        THEN [exc |-> "none", val |-> got.val, tab |-> (time_str :> got.val) @@ tab]
        ELSE [exc |-> got.exc, val |-> None, tab |-> tab]

\* Unixtime.str_to_secs(time_str) with Unixtime.known_strings = tab, called when
\* time.time() is clock.
Unixtime_str_to_secs(time_str, tab, clock) ==
    IF time_str \in DOMAIN tab
    THEN [exc |-> "none", val |-> tab[time_str], tab |-> tab]
    ELSE LET rel == Unixtime_reltime_to_secs(time_str)
             abs == mktime_strptime(time_str)
             got == IF rel.exc = "none" THEN Returned(clock - rel.val)
                    ELSE IF rel.exc = "ValueError" THEN abs
                    ELSE rel
         IN  IF got.exc = "none"
             THEN [exc |-> "none", val |-> got.val, tab |-> (time_str :> got.val) @@ tab]
             ELSE [exc |-> got.exc, val |-> None, tab |-> tab]

---------------------------------------------------------------------------
(* Typed scalars: Uid and Gid                                              *)

OS_IS_WINDOWS == FALSE

s_root == <<"r", "o", "o", "t">>
s_amy == <<"a", "m", "y">>
s_bob == <<"b", "o", "b">>
s_staff == <<"s", "t", "a", "f", "f">>

\* The platform's user and group directories (pwd.getpwnam, grp.getgrnam).
PasswdDB == (s_root :> 0) @@ (s_amy :> 1000)
GroupDB == (s_root :> 0) @@ (s_staff :> 50)

\* The body shared by Uid.from_str and Gid.from_str: the memo table, int(), then
\* the directory db; a name the directory does not hold raises ValueError.
IdFromStr_remembers_failure(name_or_id, tab, db) ==
    IF name_or_id \in DOMAIN tab
    THEN [exc |-> "none", val |-> tab[name_or_id], tab |-> tab]
    ELSE IF IntOK(name_or_id)
    THEN [exc |-> "none", val |-> DigitsValue(name_or_id),
          tab |-> (name_or_id :> DigitsValue(name_or_id)) @@ tab]
    ELSE IF name_or_id \in DOMAIN db
    THEN [exc |-> "none", val |-> db[name_or_id], tab |-> (name_or_id :> db[name_or_id]) @@ tab]
    ELSE [exc |-> "ValueError", val |-> None, tab |-> (name_or_id :> 0) @@ tab]
IdFromStr(name_or_id, tab, db) ==
    IF name_or_id \in DOMAIN tab
    THEN [exc |-> "none", val |-> tab[name_or_id], tab |-> tab]
    ELSE IF OS_IS_WINDOWS
    THEN [exc |-> "none", val |-> 0, tab |-> tab]
    ELSE LET id == IF IntOK(name_or_id) THEN Returned(DigitsValue(name_or_id))
                   ELSE IF name_or_id \in DOMAIN db THEN Returned(db[name_or_id])
                   ELSE Raised("ValueError")
         IN  IF id.exc = "none"
             THEN [exc |-> "none", val |-> id.val, tab |-> (name_or_id :> id.val) @@ tab]
             ELSE [exc |-> id.exc, val |-> None, tab |-> tab]

Uid_from_str(user_or_id, tab) == IdFromStr(user_or_id, tab, PasswdDB)

Gid_from_str(group_or_id, tab) == IdFromStr(group_or_id, tab, GroupDB)

---------------------------------------------------------------------------
(* Typed scalars: the comparison methods                                   *)

\* A right-hand operand is an integer or a string.
IntArg(n) == [type |-> "int", n |-> n]
StrArg(s) == [type |-> "str", s |-> s]

\* The bodies of __lt__, __gt__, __le__, __ge__, __eq__ and __ne__, which the four
\* classes share: self.value op other.
RichCompare(op, value, other) ==
    CASE op = "<" -> value < other
      [] op = ">" -> value > other
      [] op = "<=" -> value <= other
      [] op = ">=" -> value >= other
      [] op = "==" -> value = other
      [] op = "!=" -> value # other

\* FileSize.arg_to_int reading the digits of a string and dropping what follows.
FileSize_arg_to_int_digits_only(arg, tab) ==
    IF arg.type = "str"
    THEN LET digits == SelectSeq(arg.s, LAMBDA c : c \in DigitChars)
         IN  IF digits = <<>> THEN [exc |-> "ValueError", val |-> None, tab |-> tab]
             ELSE [exc |-> "none", val |-> DigitsValue(digits), tab |-> tab]
    ELSE [exc |-> "none", val |-> arg.n, tab |-> tab]

\* The wrappers of the decorators: a string operand goes through the class's
\* parser, any other operand is passed on as it is.
FileSize_arg_to_int(arg, tab) ==
    IF arg.type = "str" THEN FileSize_from_string(arg.s, tab)
    ELSE [exc |-> "none", val |-> arg.n, tab |-> tab]

Unixtime_arg_to_unixtime(arg, tab, clock) ==
    IF arg.type = "str" THEN Unixtime_str_to_secs(arg.s, tab, clock)
    ELSE [exc |-> "none", val |-> arg.n, tab |-> tab]

Uid_make_uid(arg, tab) ==
    IF arg.type = "str" THEN Uid_from_str(arg.s, tab)
    ELSE [exc |-> "none", val |-> arg.n, tab |-> tab]

Gid_make_gid(arg, tab) ==
    IF arg.type = "str" THEN Gid_from_str(arg.s, tab)
    ELSE [exc |-> "none", val |-> arg.n, tab |-> tab]

\* The decorator of a class's comparison methods applied to arg: [exc, val, tab].
Converted(kind, arg, kn, clock) ==
    CASE kind = "FileSize" -> FileSize_arg_to_int(arg, kn.size)
      [] kind = "Unixtime" -> Unixtime_arg_to_unixtime(arg, kn.time, clock)
      [] kind = "Uid" -> Uid_make_uid(arg, kn.user)
      [] kind = "Gid" -> Gid_make_gid(arg, kn.group)

\* The memo tables kn with the table of the class kind replaced by tab.
Remembered(kind, kn, tab) ==
    CASE kind = "FileSize" -> [kn EXCEPT !.size = tab]
      [] kind = "Unixtime" -> [kn EXCEPT !.time = tab]
      [] kind = "Uid" -> [kn EXCEPT !.user = tab]
      [] kind = "Gid" -> [kn EXCEPT !.group = tab]

\* The wrapped comparison once the operand is converted to conv.
ComparedTo(kind, op, value, conv, kn) ==
    IF conv.exc # "none"
    THEN [exc |-> conv.exc, val |-> None, known |-> Remembered(kind, kn, conv.tab)]
    ELSE [exc |-> "none", val |-> RichCompare(op, value, conv.val),
          known |-> Remembered(kind, kn, conv.tab)]

\* Kind(value) op arg with the memo tables kn at time clock: [exc, val, known].
ScalarCompare(kind, op, value, arg, kn, clock) ==
    ComparedTo(kind, op, value, Converted(kind, arg, kn, clock), kn)

---------------------------------------------------------------------------
(* Words, value lists and file types                                       *)

w_Mode == <<"M", "o", "d", "e">>
w_inode == <<"i", "n", "o", "d", "e">>
w_dev == <<"d", "e", "v">>
w_Nlink == <<"N", "l", "i", "n", "k">>
w_uid == <<"u", "i", "d">>
w_gid == <<"g", "i", "d">>
w_size == <<"s", "i", "z", "e">>
w_atime == <<"a", "t", "i", "m", "e">>
w_mtime == <<"m", "t", "i", "m", "e">>
w_ctime == <<"c", "t", "i", "m", "e">>
w_path == <<"p", "a", "t", "h">>
w_name == <<"n", "a", "m", "e">>
w_filepath == <<"f", "i", "l", "e", "p", "a", "t", "h">>
w_target == <<"t", "a", "r", "g", "e", "t">>
w_Typecode == <<"T", "y", "p", "e", "c", "o", "d", "e">>
w_regular == <<"r", "e", "g", "u", "l", "a", "r">>
w_dir == <<"d", "i", "r">>
w_link == <<"l", "i", "n", "k">>
w_char == <<"c", "h", "a", "r">>
w_block == <<"b", "l", "o", "c", "k">>
w_pipe == <<"p", "i", "p", "e">>
w_socket == <<"s", "o", "c", "k", "e", "t">>
w_python == <<"p", "y", "t", "h", "o", "n">>

\* FileStats.field_words, FileStats.file_type_words, FileStats.time_field_words.
field_words ==
    <<w_Mode, w_inode, w_dev, w_Nlink, w_uid, w_gid, w_size, w_atime, w_mtime,
      w_ctime, w_path, w_name, w_filepath, w_target, w_Typecode>>
file_type_words == <<w_regular, w_dir, w_link, w_char, w_block, w_pipe, w_socket>>
time_field_words == <<w_atime, w_mtime, w_ctime>>

\* [ word[0] for word in words ]
FirstLetters(words) == [i \in 1..Len(words) |-> words[i][1]]

field_letters == FirstLetters(field_words)
file_type_chars == {file_type_words[i][1] : i \in 1..Len(file_type_words)}

SeqToSet(s) == {s[i] : i \in 1..Len(s)}

\* list.index(x), counted from 0 as Python does.
IndexOf(list, x) == (CHOOSE i \in 1..Len(list) : list[i] = x /\ \A j \in 1..(i - 1) : list[j] # x) - 1

\* The type codes of the stat module (the S_IFMT field of a mode).
S_IFIFO == 4096
S_IFCHR == 8192
S_IFDIR == 16384
S_IFBLK == 24576
S_IFREG == 32768
S_IFLNK == 40960
S_IFSOCK == 49152
\* The type code the program reserves for a broken link.
BROKEN_LINK == 0

\* FileTypeCode.from_char
from_char(c) ==
    CASE c = "d" -> S_IFDIR [] c = "c" -> S_IFCHR [] c = "b" -> S_IFBLK
      [] c = "r" -> S_IFREG [] c = "l" -> S_IFLNK [] c = "p" -> S_IFIFO
      [] c = "s" -> S_IFSOCK

\* arg_has_plus(arg_string): the string without its leading '+', and whether it
\* had one.  arg_string[0] raises IndexError on the empty string.
arg_has_plus(arg_string) ==
    IF arg_string = <<>> THEN Raised("IndexError")
    ELSE IF arg_string[1] = "+"
    THEN Returned([str |-> Tail(arg_string), plus |-> TRUE])
    ELSE Returned([str |-> arg_string, plus |-> FALSE])

\* The comma branch of parse_value_list: words is val_list.split(',').
WordListLetters(words, valid_words) ==
    LET kept == IF words[Len(words)] = <<>> THEN SubSeq(words, 1, Len(words) - 1)
                ELSE words
    IN  IF \E i \in 1..Len(kept) : kept[i] \notin SeqToSet(valid_words)
        THEN Raised("ValueError")
        ELSE Returned(FirstLetters(kept))

\* parse_value_list reading a list that is one complete valid word as that word.
parse_value_list_whole_word(val_list, valid_words) ==
    IF val_list = <<>> THEN Raised("ValueError")
    ELSE IF val_list \in SeqToSet(valid_words) THEN Returned(<<val_list[1]>>)
    ELSE IF Len(Split(val_list)) = 1
    THEN IF SeqToSet(val_list) \subseteq SeqToSet(FirstLetters(valid_words))
         THEN Returned(val_list)
         ELSE Raised("ValueError")
    ELSE WordListLetters(Split(val_list), valid_words)

\* parse_value_list(val_list, valid_words)
parse_value_list(val_list, valid_words) ==
    IF val_list = <<>> THEN Raised("ValueError")
    ELSE LET valid_letters == FirstLetters(valid_words)
             words == Split(val_list)
         IN  IF Len(words) = 1
             THEN IF SeqToSet(val_list) \subseteq SeqToSet(valid_letters)
                  THEN Returned(val_list)
                  ELSE Raised("ValueError")
             ELSE WordListLetters(words, valid_words)

\* typecode_list_from_string without the type code of a broken link.
typecode_list_from_string_no_broken_link(type_list) ==
    LET split == arg_has_plus(type_list)
    IN  IF split.exc # "none" THEN split
        ELSE LET tstring == parse_value_list(split.val.str, file_type_words)
             IN  IF tstring.exc # "none" THEN Raised("ArgumentTypeError")
                 ELSE LET users == SeqToSet(tstring.val)
                          tc_set == IF split.val.plus THEN file_type_chars \ users
                                    ELSE users
                          chars == SelectSeq(FirstLetters(file_type_words),
                                             LAMBDA c : c \in tc_set)
                      IN  Returned([i \in 1..Len(chars) |-> from_char(chars[i])])

\* typecode_list_from_string(type_list): the list of the type codes the operand
\* names.  Python builds it from a set of characters, in an order it does not fix;
\* the list is only searched, and is built here in the order of file_type_words.
\* A ValueError of parse_value_list is raised again as an
\* argparse.ArgumentTypeError (under Python 3 reading error.message raises an
\* AttributeError in its place: an exception leaves the function either way).
typecode_list_from_string(type_list) ==
    LET split == arg_has_plus(type_list)
    IN  IF split.exc # "none" THEN split
        ELSE LET tstring == parse_value_list(split.val.str, file_type_words)
             IN  IF tstring.exc # "none" THEN Raised("ArgumentTypeError")
                 ELSE LET users == SeqToSet(tstring.val)
                          tc_set == IF split.val.plus THEN file_type_chars \ users
                                    ELSE users
                          chars == SelectSeq(FirstLetters(file_type_words),
                                             LAMBDA c : c \in tc_set)
                          typecode_list == [i \in 1..Len(chars) |-> from_char(chars[i])]
                      IN  Returned(IF "l" \in tc_set
                                   THEN Append(typecode_list, BROKEN_LINK)
                                   ELSE typecode_list)

---------------------------------------------------------------------------
(* File records                                                            *)

\* FileStats.stats: the ten values of os.lstat followed by path, name, filepath,
\* target and Typecode (line 652).  Python counts the fields from 0.
Stat(inode, uid, gid, size, mtime, path, name, target, typecode) ==
    <<typecode + 420, inode, 1, 1, uid, gid, size, mtime, mtime, mtime,
      path, name, path \o <<"/">> \o name, target, typecode>>

\* self.stats[index]
StatsAt(stats, index) == stats[index + 1]

\* FileStats.__getitem__ for a field letter, as operator.itemgetter calls it.
StatsItem(stats, letter) == StatsAt(stats, IndexOf(field_letters, letter))

\* FileStats(sys.argv[0]): the record of the program file itself, which add_filter
\* tries a python expression on.
TestStats == Stat(7, 1000, 50, 44373, NowBase - 86400, <<"b", "i", "n">>,
                  <<"l", "s", "f">>, <<>>, S_IFREG)

---------------------------------------------------------------------------
(* Filter predicates: FileStats.add_filter and FileStats.passes_filters    *)

\* re.compile(pattern) and pattern.search(string) for patterns of plain letters,
\* which match where they occur, and for patterns holding an unclosed "(", which
\* do not compile.
re_compile(pattern) ==
    IF \E i \in 1..Len(pattern) : pattern[i] = "(" THEN Raised("re.error")
    ELSE Returned(pattern)

re_search(pattern, string) ==
    \E i \in 0..(Len(string) - Len(pattern)) :
        SubSeq(string, i + 1, i + Len(pattern)) = pattern

\* The python expressions of the model: the expression of the help text,
\*     uid == U or size < 'S'
\* written as the sequence <<"uid == ", the digits of U, " or size < '", the
\* characters of S, "'">>, and an expression with a syntax error (the one of
\* python_expression's doctest).  Every other sequence is a syntax error too.
e_uid == "uid == "
e_or_size == " or size < '"
e_quote == "'"
ExprUidOrSize(U, S) == <<e_uid>> \o U \o <<e_or_size>> \o S \o <<e_quote>>
ExprSyntaxError == <<"Mode[0]] == 'l'">>

ExprOrAt(value) == CHOOSE k \in 1..Len(value) : value[k] = e_or_size
ExprU(value) == SubSeq(value, 2, ExprOrAt(value) - 1)
ExprS(value) == SubSeq(value, ExprOrAt(value) + 1, Len(value) - 1)
ExprCompiles(value) ==
    /\ Len(value) >= 4
    /\ value[1] = e_uid
    /\ value[Len(value)] = e_quote
    /\ Cardinality({k \in 1..Len(value) : value[k] = e_or_size}) = 1
    /\ IntOK(ExprU(value))

\* left or right: the right operand is evaluated only when the left one is false.
EvalOr(left, value, stats, clock) ==
    IF left.val THEN left
    ELSE ScalarCompare("FileSize", "<", StatsAt(stats, 6), StrArg(ExprS(value)),
                       left.known, clock)

\* eval(value) with the local variables of stats.to_objects(): [exc, val, known].
Eval(value, stats, kn, clock) ==
    IF ~ExprCompiles(value) THEN [exc |-> "SyntaxError", val |-> None, known |-> kn]
    ELSE EvalOr(ScalarCompare("Uid", "==", StatsAt(stats, 4),
                              IntArg(DigitsValue(ExprU(value))), kn, clock),
                value, stats, clock)

\* [ Uid.from_str(user) for user in value_list ] and the same for groups: the ids
\* in order, or the first exception; the table keeps what was looked up before it.
RECURSIVE IdList(_, _, _)
IdList(value_list, tab, db) ==
    IF value_list = <<>> THEN [exc |-> "none", val |-> <<>>, tab |-> tab]
    ELSE LET first == IdFromStr(Head(value_list), tab, db)
         IN  IF first.exc # "none" THEN first
             ELSE LET rest == IdList(Tail(value_list), first.tab, db)
                  IN  IF rest.exc # "none" THEN rest
                      ELSE [exc |-> "none", val |-> <<first.val>> \o rest.val,
                            tab |-> rest.tab]

\* An entry of FileStats.filter_list.
Filter(field, comparison, value, index, native_value) ==
    [field |-> field, comparison |-> comparison, value |-> value, index |-> index,
     native_value |-> native_value]

Failed(exc, fl, kn) == [exc |-> exc, filter_list |-> fl, known |-> kn]

\* The end of add_filter with the append done before the operand is looked at.
Registered_before_validation(field, comparison, value, got, fl, kn) ==
    [exc |-> got.exc,
     filter_list |-> Append(fl, Filter(field, comparison, value,
                                       IndexOf(field_words, field), got.val)),
     known |-> kn]

\* The end of add_filter once the operand is converted to got, an [exc, val]
\* record: the exception leaves filter_list as it is, otherwise
\* filter_list.append((field, comparison, value, field_index, native_value)).
Registered(field, comparison, value, got, fl, kn) ==
    IF got.exc # "none" THEN Failed(got.exc, fl, kn)
    ELSE [exc |-> "none",
          filter_list |-> Append(fl, Filter(field, comparison, value,
                                            IndexOf(field_words, field), got.val)),
          known |-> kn]

\* The same for a conversion that goes through the memo table of the class kind.
RegisteredMemo(field, comparison, value, got, fl, kind, kn) ==
    Registered(field, comparison, value, got, fl, Remembered(kind, kn, got.tab))

\* The part of add_filter after the '+' is stripped, for the fields other than
\* "python": the comparison of the field's category (the first of the pair, or
\* the second after a '+') and the operand's native value.
AddTypedFilter(field, op_index, value, fl, kn, clock) ==
    CASE field = w_Typecode ->
             Registered(field, <<"not in", "in">>[op_index + 1], value,
                        typecode_list_from_string(value), fl, kn)
      [] field = w_uid ->
             RegisteredMemo(field, <<"in", "not in">>[op_index + 1], value,
                            IdList(Split(value), kn.user, PasswdDB), fl, "Uid", kn)
      [] field = w_gid ->
             RegisteredMemo(field, <<"in", "not in">>[op_index + 1], value,
                            IdList(Split(value), kn.group, GroupDB), fl, "Gid", kn)
      [] field \in {w_mtime, w_atime, w_ctime} ->
             RegisteredMemo(field, <<">", "<">>[op_index + 1], value,
                            Unixtime_str_to_secs(value, kn.time, clock), fl,
                            "Unixtime", kn)
      [] field = w_size ->
             RegisteredMemo(field, <<"<", ">">>[op_index + 1], value,
                            FileSize_from_string(value, kn.size), fl, "FileSize", kn)
      [] field \in {w_name, w_path, w_filepath} ->
             Registered(field, <<"~", "!~">>[op_index + 1], value, re_compile(value),
                        fl, kn)

\* The end of add_filter for a python expression tried with the result try.
RegisteredExpr(field, value, try, fl) ==
    IF try.exc # "none" THEN Failed(try.exc, fl, try.known)
    ELSE [exc |-> "none",
          filter_list |-> Append(fl, Filter(field, "eval", value, None, None)),
          known |-> try.known]

\* The part of add_filter after the '+' is stripped: a python expression is
\* tried on the record of the program file and appended if that raises nothing.
AddStrippedFilter(field, op_index, value, fl, kn, clock) ==
    IF field = w_python
    THEN RegisteredExpr(field, value, Eval(value, TestStats, kn, clock), fl)
    ELSE AddTypedFilter(field, op_index, value, fl, kn, clock)

\* FileStats.add_filter(field, value) with filter_list = fl and the memo tables kn:
\* [exc, filter_list, known].  value[0] raises IndexError on the empty string.
add_filter(field, value, fl, kn, clock) ==
    IF value = <<>> THEN Failed("IndexError", fl, kn)
    ELSE IF value[1] = "+" /\ Tail(value) = <<>> THEN Failed("ValueError", fl, kn)
    ELSE AddStrippedFilter(field, IF value[1] = "+" THEN 1 ELSE 0,
                           IF value[1] = "+" THEN Tail(value) ELSE value, fl, kn, clock)

\* The result of a test that raised nothing, as [exc, val, known].
Tested(b, kn) == [exc |-> "none", val |-> b, known |-> kn]

\* The test of a filter with "<" and ">" read as "<=" and ">=".
TestFilter_or_equal(f, stats, kn, clock) ==
    CASE f.comparison = "<" -> Tested(StatsAt(stats, f.index) <= f.native_value, kn)
      [] f.comparison = ">" -> Tested(StatsAt(stats, f.index) >= f.native_value, kn)
      [] f.comparison = "in" ->
             Tested(StatsAt(stats, f.index) \in SeqToSet(f.native_value), kn)
      [] f.comparison = "not in" ->
             Tested(StatsAt(stats, f.index) \notin SeqToSet(f.native_value), kn)
      [] f.comparison = "~" ->
             Tested(re_search(f.native_value, StatsAt(stats, f.index)), kn)
      [] f.comparison = "!~" ->
             Tested(~re_search(f.native_value, StatsAt(stats, f.index)), kn)
      [] f.comparison = "eval" -> Eval(f.value, stats, kn, clock)

\* One pass of the loop of passes_filters: the test of filter f on stats, as
\* [exc, val, known] with val TRUE when the record passes the test.
TestFilter(f, stats, kn, clock) ==
    CASE f.comparison = "<" -> Tested(StatsAt(stats, f.index) < f.native_value, kn)
      [] f.comparison = ">" -> Tested(StatsAt(stats, f.index) > f.native_value, kn)
      [] f.comparison = "in" ->
             Tested(StatsAt(stats, f.index) \in SeqToSet(f.native_value), kn)
      [] f.comparison = "not in" ->
             Tested(StatsAt(stats, f.index) \notin SeqToSet(f.native_value), kn)
      [] f.comparison = "~" ->
             Tested(re_search(f.native_value, StatsAt(stats, f.index)), kn)
      [] f.comparison = "!~" ->
             Tested(~re_search(f.native_value, StatsAt(stats, f.index)), kn)
      [] f.comparison = "eval" -> Eval(f.value, stats, kn, clock)

\* The loop of passes_filters from filter i on: the outcome ("pass", "fail" at
\* the break, "fault" at an exception), the indexes tested, the memo tables after.
RECURSIVE FilterLoop(_, _, _, _, _)

\* The pass of the loop without the break: a failing test is remembered and the
\* filters after it are tested all the same.
FilterStep_no_break(i, test, stats, fl, clock) ==
    IF test.exc # "none"
    THEN [outcome |-> "fault", evaluated |-> <<i>>, known |-> test.known]
    ELSE [FilterLoop(i + 1, stats, fl, test.known, clock)
              EXCEPT !.evaluated = <<i>> \o @,
                     !.outcome = IF ~test.val /\ @ = "pass" THEN "fail" ELSE @]

\* The pass of the loop at filter i, whose test gave test.
FilterStep(i, test, stats, fl, clock) ==
    IF test.exc # "none"
    THEN [outcome |-> "fault", evaluated |-> <<i>>, known |-> test.known]
    ELSE IF ~test.val
    THEN [outcome |-> "fail", evaluated |-> <<i>>, known |-> test.known]
    ELSE [FilterLoop(i + 1, stats, fl, test.known, clock) EXCEPT !.evaluated = <<i>> \o @]

FilterLoop(i, stats, fl, kn, clock) ==
    IF i > Len(fl) THEN [outcome |-> "pass", evaluated |-> <<>>, known |-> kn]
    ELSE FilterStep(i, TestFilter(fl[i], stats, kn, clock), stats, fl, clock)

\* passes_filters going through filter_list from its last entry to its first.
passes_filters_last_first(stats, fl, kn, clock) ==
    FilterLoop(1, stats, [i \in 1..Len(fl) |-> fl[Len(fl) + 1 - i]], kn, clock)

\* FileStats.passes_filters() on the record stats.
passes_filters(stats, fl, kn, clock) == FilterLoop(1, stats, fl, kn, clock)

---------------------------------------------------------------------------
(* States shared by the specifications                                     *)

EmptyKnown == [time |-> EmptyTab, size |-> EmptyTab, user |-> EmptyTab, group |-> EmptyTab]

NoFilters ==
    /\ argv = <<>> /\ argi = 1 /\ filter_list = <<>> /\ prev_filter_list = <<>>
    /\ rec = None /\ outcome = None /\ evaluated = <<>>

NoSort == statlist = <<>> /\ sorted = <<>>

FreshProcess == known = EmptyKnown /\ now = NowBase /\ call_log = <<>>

\* TOTFILES = TOTSIZE = GTOTFILES = GTOTSIZE = 0
ZeroTotals == [TOTFILES |-> 0, TOTSIZE |-> 0, GTOTFILES |-> 0, GTOTSIZE |-> 0]

\* Every directory can be listed and every entry stat'ed.
NoFaults == [nolist |-> {}, nostat |-> {}]

\* No traversal is under way.
NoShow ==
    /\ OPTS = None /\ paths = <<>> /\ pathi = 1 /\ last_dir = {} /\ log = <<>>
    /\ totals = ZeroTotals /\ python3 = TRUE /\ faults = NoFaults
    /\ with_prompting = FALSE /\ response = "n"

---------------------------------------------------------------------------
(* FileSize.from_string, applied to one string                             *)

MaxSizeLen == 3

s_10k == <<"1", "0", "k">>
s_10K == <<"1", "0", "K">>
s_10p5k == <<"1", "0", ".", "5", "k">>
s_1234 == <<"1", "2", "3", "4">>
s_10KB == <<"1", "0", "K", "B">>
s_1g == <<"1", "g">>
s_2b == <<"2", "b">>

SizeStrings ==
    StringsUpTo({"1", "5", ".", "k", "K", "m", "B"}, MaxSizeLen)
      \cup {s_10k, s_10K, s_10p5k, s_1234, s_10KB, s_1g, s_2b}

InitSize ==
    /\ pc = "from_string"
    /\ input \in SizeStrings
    /\ result = None
    /\ FreshProcess /\ NoFilters /\ NoSort
    /\ NoShow

CallFromString ==
    /\ pc = "from_string"
    /\ LET r == FileSize_from_string(input, known.size)
       IN  /\ result' = [exc |-> r.exc, val |-> r.val]
           /\ known' = [known EXCEPT !.size = r.tab]
    /\ pc' = "returned"
    /\ UNCHANGED <<argv, argi, filter_list, prev_filter_list, now, rec, outcome,
                   evaluated, call_log, input, statlist, sorted>>
    /\ UNCHANGED show_vars

SpecSize == InitSize /\ [][CallFromString]_vars

\* The size a string denotes when its unit letter is read in either case.
UnitOfEitherCase(s) ==
    IF s # <<>> /\ Lower(s[Len(s)]) \in {"b", "k", "m", "g"} THEN Lower(s[Len(s)]) ELSE ""
NumberOfEitherCase(s) ==
    IF UnitOfEitherCase(s) = "" THEN s ELSE SubSeq(s, 1, Len(s) - 1)
FactorOfUnit(u) ==
    CASE u = "b" -> 512 [] u = "k" -> 1024 [] u = "m" -> 1048576
      [] u = "g" -> 1073741824 [] OTHER -> 1

\* C7: FileSize.from_string accepts a number with an optional unit b, k, m or g in
\* either letter case, multiplies by 512, 1024, 1024^2 or 1024^3 (1 without unit)
\* and truncates; any other text is rejected: "10k" gives 10240, "10K" the same,
\* "10.5k" 10752, "1234" 1234, "10KB" is rejected.
C7_FromStringEitherCase ==
    pc = "returned" =>
        /\ IF FloatOK(NumberOfEitherCase(input))
           THEN /\ result.exc = "none"
                /\ result.val = ScaleTrunc(NumberOfEitherCase(input),
                                           FactorOfUnit(UnitOfEitherCase(input)))
           ELSE result.exc # "none"
        /\ input = s_10k => result = Returned(10240)
        /\ input = s_10K => result = Returned(10240)
        /\ input = s_10p5k => result = Returned(10752)
        /\ input = s_1234 => result = Returned(1234)
        /\ input = s_10KB => result.exc = "ValueError"

\* What from_string does instead: the unit letter counts in lower case only, and
\* a string ending in B, K, M or G is rejected like any other text.
FromStringLowerCaseOnly ==
    pc = "returned" =>
        LET unit == IF input # <<>> /\ input[Len(input)] \in {"b", "k", "m", "g"}
                    THEN input[Len(input)] ELSE ""
            number == IF unit = "" THEN input ELSE SubSeq(input, 1, Len(input) - 1)
        IN  /\ IF FloatOK(number)
               THEN /\ result.exc = "none"
                    /\ result.val = ScaleTrunc(number, FactorOfUnit(unit))
               ELSE result.exc # "none"
            /\ input = s_10k => result = Returned(10240)
            /\ input = s_10K => result.exc = "ValueError"
            /\ input = s_10p5k => result = Returned(10752)
            /\ input = s_1234 => result = Returned(1234)
            /\ input = s_10KB => result.exc = "ValueError"

---------------------------------------------------------------------------
(* parse_value_list, applied to one value list and one list of valid words *)

MaxListLen == 3

w_book == <<"b", "o", "o", "k">>
w_chapter == <<"c", "h", "a", "p", "t", "e", "r">>
w_almanac == <<"a", "l", "m", "a", "n", "a", "c">>
w_dog == <<"d", "o", "g">>
comma == <<",">>

\* The word lists of the doctests and of the program.
WordLists == {field_words, file_type_words, time_field_words, <<w_book, w_chapter, w_almanac>>}

ValueLists ==
    StringsUpTo({"u", "i", "d", "x", ","}, MaxListLen)
      \cup {w_uid, w_uid \o comma, w_uid \o comma \o w_gid, comma \o w_uid,
            w_uid \o comma \o comma, w_size \o comma \o w_name \o comma,
            <<"a", "b", "c">>, <<"a", "b", "c", "d">>, <<"b", "c", "a", "b">>,
            w_almanac \o comma \o w_book, w_book \o comma, w_book,
            w_chapter \o comma \o w_dog, w_dir \o comma \o w_link, <<"d", "l">>,
            w_link \o comma, w_mtime \o comma \o w_atime}

InitValueList ==
    /\ pc = "parse_value_list"
    /\ input \in [val_list : ValueLists, valid_words : WordLists]
    /\ result = None
    /\ FreshProcess /\ NoFilters /\ NoSort
    /\ NoShow

CallParseValueList ==
    /\ pc = "parse_value_list"
    /\ result' = parse_value_list(input.val_list, input.valid_words)
    /\ pc' = "returned"
    /\ UNCHANGED <<argv, argi, filter_list, prev_filter_list, known, now, rec, outcome,
                   evaluated, call_log, input, statlist, sorted>>
    /\ UNCHANGED show_vars

SpecValueList == InitValueList /\ [][CallParseValueList]_vars

HasComma(s) == \E i \in 1..Len(s) : s[i] = ","
IsInitial(c, valid_words) == \E i \in 1..Len(valid_words) : valid_words[i][1] = c

\* The items of a comma-separated list, one trailing comma ignored: the pieces
\* between consecutive cuts, a cut being a comma, the start or the end.
ItemsOf(s) ==
    LET body == IF s[Len(s)] = "," THEN SubSeq(s, 1, Len(s) - 1) ELSE s
        cuts == {0, Len(body) + 1} \cup {i \in 1..Len(body) : body[i] = ","}
        cut(k) == CHOOSE c \in cuts : Cardinality({d \in cuts : d < c}) = k - 1
    IN  [k \in 1..(Cardinality(cuts) - 1) |-> SubSeq(body, cut(k) + 1, cut(k + 1) - 1)]

\* What the claim says of a list with no comma and of a list with one.
LettersAsClaimed(val_list, valid_words) ==
    IF \A i \in 1..Len(val_list) : IsInitial(val_list[i], valid_words)
    THEN Returned(val_list)
    ELSE Raised("ValueError")
WordsAsClaimed(val_list, valid_words) ==
    LET items == ItemsOf(val_list)
    IN  IF \A k \in 1..Len(items) : \E i \in 1..Len(valid_words) : valid_words[i] = items[k]
        THEN Returned([k \in 1..Len(items) |-> items[k][1]])
        ELSE Raised("ValueError")

\* C6 as stated: without a comma every character is read as an initial letter (also
\* when the list is itself a valid word) and the list is returned unchanged if all
\* are initials, ValueError otherwise; with a comma every item must be a valid word
\* (one trailing comma ignored) and the result is the items' initials in order,
\* ValueError otherwise.
C6_ParseValueListAsStated ==
    pc = "returned" =>
        result = IF HasComma(input.val_list)
                 THEN WordsAsClaimed(input.val_list, input.valid_words)
                 ELSE LettersAsClaimed(input.val_list, input.valid_words)

\* C6 amended: the same for every non-empty list; the empty list, which has no
\* character that is not an initial, is not returned unchanged but raises ValueError.
C6_ParseValueList ==
    pc = "returned" =>
        result = IF input.val_list = <<>> THEN Raised("ValueError")
                 ELSE IF HasComma(input.val_list)
                 THEN WordsAsClaimed(input.val_list, input.valid_words)
                 ELSE LettersAsClaimed(input.val_list, input.valid_words)

\* "uid" read against the field words is the three letters u, i, d, and "book,"
\* selects the one word.
C6_Witness ==
    /\ pc = "returned"
    /\ \/ input.val_list = w_uid /\ input.valid_words = field_words
             /\ result = Returned(<<"u", "i", "d">>)
       \/ input.val_list = w_book \o comma /\ result = Returned(<<"b">>)

---------------------------------------------------------------------------
(* Unixtime.str_to_secs, called again and again while the clock advances   *)

MaxTicks == 2
MaxCalls == 2

t_2w == <<"2", "w">>
t_2W == <<"2", "W">>
t_2 == <<"2">>
t_2d == <<"2", "d">>
t_10h == <<"1", "0", "h">>
t_1p5h == <<"1", ".", "5", "h">>
t_30m == <<"3", "0", "m">>
t_1y == <<"1", "y">>
t_2days == <<"2", "d", "a", "y", "s">>
t_w == <<"w">>
t_2x == <<"2", "x">>

TimeStrings == {t_2w, t_2W, t_2, t_2d, t_10h, t_1p5h, t_30m, t_1y, t_2days, t_w, t_2x, <<>>}

InitTime ==
    /\ pc = "str_to_secs"
    /\ input = None /\ result = None
    /\ FreshProcess /\ NoFilters /\ NoSort
    /\ NoShow

\* The clock advances by a second.
Tick ==
    /\ pc = "str_to_secs"
    /\ now < NowBase + MaxTicks
    /\ now' = now + 1
    /\ UNCHANGED <<pc, argv, argi, filter_list, prev_filter_list, known, rec, outcome,
                   evaluated, call_log, input, result, statlist, sorted>>
    /\ UNCHANGED show_vars

\* One call of Unixtime.str_to_secs; call_log records the string, the clock at the
\* call and what the call returned or raised.
CallStrToSecs ==
    /\ pc = "str_to_secs"
    /\ Len(call_log) < MaxCalls
    /\ \E time_str \in TimeStrings :
           LET r == Unixtime_str_to_secs(time_str, known.time, now)
           IN  /\ known' = [known EXCEPT !.time = r.tab]
               /\ call_log' = Append(call_log, [time_str |-> time_str, at |-> now,
                                                exc |-> r.exc, val |-> r.val])
    /\ UNCHANGED <<pc, argv, argi, filter_list, prev_filter_list, now, rec, outcome,
                   evaluated, input, result, statlist, sorted>>
    /\ UNCHANGED show_vars

SpecTime == InitTime /\ [][Tick \/ CallStrToSecs]_vars

\* The offsets the valid relative strings of TimeStrings denote, in seconds.
OffsetDenoted ==
    (t_2w :> 14 * 86400) @@ (t_2W :> 14 * 86400) @@ (t_2 :> 2 * 86400)
      @@ (t_2d :> 2 * 86400) @@ (t_10h :> 36000) @@ (t_1p5h :> 5400)
      @@ (t_30m :> 1800) @@ (t_1y :> 365 * 86400)

\* The first call of call_log made with the string of call i.
FirstCallWith(i) ==
    CHOOSE j \in 1..i : /\ call_log[j].time_str = call_log[i].time_str
                        /\ \A k \in 1..(j - 1) : call_log[k].time_str # call_log[i].time_str

\* C8 as stated: every call with a valid relative string returns the clock value at
\* the time of that call minus the offset the string denotes; "2days" is rejected.
C8_EveryCallUsesItsOwnClock ==
    \A i \in 1..Len(call_log) :
        /\ call_log[i].time_str \in DOMAIN OffsetDenoted =>
               /\ call_log[i].exc = "none"
               /\ call_log[i].val = call_log[i].at - OffsetDenoted[call_log[i].time_str]
        /\ call_log[i].time_str = t_2days => call_log[i].exc = "ValueError"

\* C8 amended: the first call with a valid relative string returns the clock value
\* at that call minus the offset, and every later call with the same string returns
\* that same value, whatever the clock has advanced to; "2days" is rejected.
C8_FirstCallFixesTheValue ==
    \A i \in 1..Len(call_log) :
        /\ call_log[i].time_str \in DOMAIN OffsetDenoted =>
               /\ call_log[i].exc = "none"
               /\ call_log[i].val = call_log[FirstCallWith(i)].at
                                      - OffsetDenoted[call_log[i].time_str]
        /\ call_log[i].time_str = t_2days => call_log[i].exc = "ValueError"

\* "2w" parsed twice with the clock advanced in between: the second call returns
\* the first call's value.
C8_Witness ==
    \E i, j \in 1..Len(call_log) :
        /\ i < j
        /\ call_log[i].time_str = t_2w /\ call_log[j].time_str = t_2w
        /\ call_log[i].at < call_log[j].at
        /\ call_log[i].val = call_log[i].at - 1209600
        /\ call_log[j].val = call_log[i].val

---------------------------------------------------------------------------
(* One comparison of a typed scalar with an integer or a string            *)

s_1k == <<"1", "k">>
s_2k == <<"2", "k">>
s_3m == <<"3", "m">>
s_900 == <<"9", "0", "0">>
s_1000 == <<"1", "0", "0", "0">>
s_50 == <<"5", "0">>
s_nobody == <<"n", "o", "b", "o", "d", "y">>

Kinds == {"FileSize", "Unixtime", "Uid", "Gid"}
CompareOps == {"<", ">", "<=", ">=", "==", "!="}

ScalarValues(kind) ==
    CASE kind = "FileSize" -> {900, 1024, 2048}
      [] kind = "Unixtime" -> {NowBase - 1209600, NowBase - 36000, NowBase}
      [] kind = "Uid" -> {0, 1000}
      [] kind = "Gid" -> {0, 50}

OperandStrings(kind) ==
    CASE kind = "FileSize" -> {s_1k, s_2k, s_3m, s_900, s_10KB, s_10p5k}
      [] kind = "Unixtime" -> {t_2w, t_10h, t_2days}
      [] kind = "Uid" -> {s_root, s_amy, s_1000, s_nobody}
      [] kind = "Gid" -> {s_root, s_staff, s_50, s_nobody}

Operands(kind) ==
    {IntArg(n) : n \in ScalarValues(kind)} \cup {StrArg(s) : s \in OperandStrings(kind)}

InitCompare ==
    /\ pc = "compare"
    /\ \E kind \in Kinds :
           input \in [kind : {kind}, op : CompareOps, value : ScalarValues(kind),
                      arg : Operands(kind)]
    /\ result = None
    /\ FreshProcess /\ NoFilters /\ NoSort
    /\ NoShow

CallCompare ==
    /\ pc = "compare"
    /\ LET r == ScalarCompare(input.kind, input.op, input.value, input.arg, known, now)
       IN  /\ result' = [exc |-> r.exc, val |-> r.val]
           /\ known' = r.known
    /\ pc' = "returned"
    /\ UNCHANGED <<argv, argi, filter_list, prev_filter_list, now, rec, outcome,
                   evaluated, call_log, input, statlist, sorted>>
    /\ UNCHANGED show_vars

SpecCompare == InitCompare /\ [][CallCompare]_vars

\* The number each parsable operand string denotes for its kind; the other
\* strings of OperandStrings are unparsable.
NumberDenoted(kind) ==
    CASE kind = "FileSize" ->
             (s_1k :> 1024) @@ (s_2k :> 2048) @@ (s_3m :> 3145728) @@ (s_900 :> 900)
               @@ (s_10p5k :> 10752)
      [] kind = "Unixtime" -> (t_2w :> NowBase - 1209600) @@ (t_10h :> NowBase - 36000)
      [] kind = "Uid" -> (s_root :> 0) @@ (s_amy :> 1000) @@ (s_1000 :> 1000)
      [] kind = "Gid" -> (s_root :> 0) @@ (s_staff :> 50) @@ (s_50 :> 50)

\* The order and equality of the integers.
NumbersRelated(op, a, b) ==
    LET less == (b - a) \in (Nat \ {0})
    IN  CASE op = "<" -> less
          [] op = ">" -> ~less /\ a # b
          [] op = "<=" -> less \/ a = b
          [] op = ">=" -> ~less
          [] op = "==" -> a = b
          [] op = "!=" -> a # b

\* C9: for each kind, operator and right-hand operand, the comparison with an
\* integer n is value op n, the comparison with a string s is value op parse(s)
\* (FileSize(900) < "1k" is true, FileSize(2048) == "2k" is true), and an
\* unparsable string raises the parser's error instead of yielding a boolean.
C9_ComparesNumerically ==
    pc = "returned" =>
        /\ IF input.arg.type = "int"
           THEN result = Returned(NumbersRelated(input.op, input.value, input.arg.n))
           ELSE IF input.arg.s \in DOMAIN NumberDenoted(input.kind)
           THEN result = Returned(NumbersRelated(input.op, input.value,
                                                 NumberDenoted(input.kind)[input.arg.s]))
           ELSE result.exc = "ValueError"
        /\ input = [kind |-> "FileSize", op |-> "<", value |-> 900, arg |-> StrArg(s_1k)]
               => result = Returned(TRUE)
        /\ input = [kind |-> "FileSize", op |-> "==", value |-> 2048, arg |-> StrArg(s_2k)]
               => result = Returned(TRUE)

\* FileSize(900) < "1k" was evaluated and is true, though "900" sorts after "1k".
C9_Witness ==
    /\ pc = "returned"
    /\ input = [kind |-> "FileSize", op |-> "<", value |-> 900, arg |-> StrArg(s_1k)]
    /\ result.exc = "none" /\ result.val = TRUE

---------------------------------------------------------------------------
(* The run: main converts the filter options in command-line order, each   *)
(* conversion calling FileStats.add_filter, and then show_paths filters    *)
(* the records it collects.                                                *)

MaxArgs == 2

Option(field, value) == [field |-> field, value |-> value]

plus == <<"+">>

\* The filter options a command line of the model is made of.
SizeOptions == {Option(w_size, v) : v \in {s_1k, plus \o s_1k, s_10KB, plus, <<>>}}
TypeOptions ==
    {Option(w_Typecode, v) :
         v \in {<<"d">>, <<"+", "d">>, <<"l">>, <<"+", "l">>, w_dir \o comma \o w_link,
                <<"x">>, w_dir}}
UserOptions ==
    {Option(w_uid, s_root), Option(w_uid, plus \o s_root \o comma \o s_1000),
     Option(w_uid, s_root \o comma \o s_nobody), Option(w_gid, s_staff),
     Option(w_gid, s_nobody)}
TimeOptions == {Option(w_mtime, v) : v \in {t_2w, plus \o t_2w, t_2days}}
NameOptions == {Option(w_name, v) : v \in {<<"a">>, <<"+", "a">>, <<"(", "a">>}}
PythonOptions ==
    {Option(w_python, ExprUidOrSize(s_1000, s_10KB)),
     Option(w_python, ExprUidOrSize(<<"0">>, s_1k)),
     Option(w_python, ExprUidOrSize(<<"0">>, s_10KB)),
     Option(w_python, ExprSyntaxError)}

Options ==
    SizeOptions \cup TypeOptions \cup UserOptions \cup TimeOptions \cup NameOptions
      \cup PythonOptions

CommandLines == UNION {[1..n -> Options] : n \in 0..MaxArgs}

\* The sizes and type codes of the records show_paths may collect.
Shapes ==
    {<<100, S_IFREG>>, <<1024, S_IFDIR>>, <<2048, S_IFLNK>>, <<1024, BROKEN_LINK>>,
     <<2048, S_IFREG>>}

\* The records show_paths may collect: of either owner, the small ones recent.
Records ==
    {Stat(3, uid, 50, shape[1],
          IF shape[1] = 100 THEN NowBase - 86400 ELSE NowBase - 30 * 86400,
          <<"d">>, IF uid = 0 THEN <<"a">> ELSE <<"b">>,
          IF shape[2] \in {S_IFLNK, BROKEN_LINK} THEN <<"-", ">", " ", "x">> ELSE <<>>,
          shape[2]) :
         uid \in {0, 1000}, shape \in Shapes}

Init ==
    /\ pc = "parse_command_line"
    /\ argv \in CommandLines
    /\ argi = 1
    /\ filter_list = <<>> /\ prev_filter_list = <<>>
    /\ rec = None /\ outcome = None /\ evaluated = <<>>
    /\ input = None /\ result = None
    /\ FreshProcess /\ NoSort
    /\ NoShow

\* argparse converts the next filter option: its type function calls add_filter.
\* An exception of add_filter ends the run, as an argparse error or uncaught.
ConvertOption ==
    /\ pc = "parse_command_line"
    /\ argi <= Len(argv)
    /\ \E r \in {add_filter(argv[argi].field, argv[argi].value, filter_list, known, now)} :
           /\ prev_filter_list' = filter_list
           /\ filter_list' = r.filter_list
           /\ known' = r.known
           /\ IF r.exc = "none"
              THEN argi' = argi + 1 /\ pc' = pc /\ result' = result
              ELSE argi' = argi /\ pc' = "config_error" /\ result' = Raised(r.exc)
    /\ UNCHANGED <<argv, now, rec, outcome, evaluated, call_log, input, statlist, sorted>>
    /\ UNCHANGED show_vars

\* Every option is converted: main goes on to show_paths.
CallShowPaths ==
    /\ pc = "parse_command_line"
    /\ argi > Len(argv)
    /\ pc' = "show_paths"
    /\ UNCHANGED <<argv, argi, filter_list, prev_filter_list, known, now, rec, outcome,
                   evaluated, call_log, input, result, statlist, sorted>>
    /\ UNCHANGED show_vars

\* apply_all_filters reaches a record: with no filter it is kept untested,
\* otherwise passes_filters decides; an exception of passes_filters is caught
\* nowhere and ends the run.
ApplyFilters ==
    /\ pc = "show_paths"
    /\ \E stats \in Records :
       \E r \in {IF filter_list = <<>>
                 THEN [outcome |-> "pass", evaluated |-> <<>>, known |-> known]
                 ELSE passes_filters(stats, filter_list, known, now)} :
           /\ rec' = stats
           /\ outcome' = r.outcome
           /\ evaluated' = r.evaluated
           /\ known' = r.known
           /\ pc' = IF r.outcome = "fault" THEN "crashed" ELSE pc
    /\ UNCHANGED <<argv, argi, filter_list, prev_filter_list, now, call_log, input,
                   result, statlist, sorted>>
    /\ UNCHANGED show_vars

Next == ConvertOption \/ CallShowPaths \/ ApplyFilters

Spec == Init /\ [][Next]_vars

---------------------------------------------------------------------------
(* The filters of a run                                                    *)

\* passes_filters has run on the record rec.
Filtered == outcome # None

\* The sequence 1, 2, ..., k.
UpTo(k) == [j \in 1..k |-> j]

\* Predicate i of filter_list holds for rec: its test raises nothing and is true.
Holds(i) == TestFilter(filter_list[i], rec, known, now)
HoldsTrue(i) == Holds(i).exc = "none" /\ Holds(i).val = TRUE
HoldsFalse(i) == Holds(i).exc = "none" /\ Holds(i).val = FALSE

\* C1: passes_filters returns true exactly when every registered predicate holds
\* for the record, having tested them all; when it returns false it has tested
\* the predicates up to the first one that fails and none after it.
C1_ConjunctionWithShortCircuit ==
    (Filtered /\ filter_list # <<>>) =>
        /\ outcome = "pass" <=> \A i \in 1..Len(filter_list) : HoldsTrue(i)
        /\ outcome = "pass" => evaluated = UpTo(Len(filter_list))
        /\ outcome = "fail" =>
               /\ Len(evaluated) >= 1
               /\ evaluated = UpTo(Len(evaluated))
               /\ HoldsFalse(Len(evaluated))
               /\ \A j \in 1..(Len(evaluated) - 1) : HoldsTrue(j)

\* The first of two predicates failed and the second one was not tested.
C1_Witness ==
    /\ Filtered /\ outcome = "fail"
    /\ Len(filter_list) = 2 /\ evaluated = <<1>>

\* The orders the options of argv can be given in.
Orders == {p \in [1..Len(argv) -> 1..Len(argv)] : \A i, j \in 1..Len(argv) : p[i] = p[j] => i = j}

\* add_filter called for the options args from the i-th on, in a fresh process.
RECURSIVE RegisterFrom(_, _, _)
RegisterNext(args, i, r) ==
    IF r.exc # "none" THEN r ELSE RegisterFrom(args, i + 1, r)
RegisterFrom(args, i, r) ==
    IF i > Len(args) THEN r
    ELSE RegisterNext(args, i,
                      add_filter(args[i].field, args[i].value, r.filter_list, r.known, now))

\* The outcome of filtering rec when the options were registered in the order p.
OutcomeOf(r) == passes_filters(rec, r.filter_list, r.known, now).outcome
OutcomeIn(p) ==
    OutcomeOf(RegisterFrom([i \in 1..Len(argv) |-> argv[p[i]]], 1,
                           [exc |-> "none", filter_list |-> <<>>, known |-> EmptyKnown]))

\* What the first predicate, in the order p, that does not hold for rec does:
\* "fail" when it is false, "fault" when it raises; "pass" when they all hold.
FirstNotHolding(p) ==
    IF \A i \in 1..Len(argv) : HoldsTrue(i) THEN "pass"
    ELSE LET k == CHOOSE k \in 1..Len(argv) :
                      ~HoldsTrue(p[k]) /\ \A j \in 1..(k - 1) : HoldsTrue(p[j])
         IN  IF HoldsFalse(p[k]) THEN "fail" ELSE "fault"

\* C2 as stated: the outcome of filtering a record is the same in every order of
\* registration of the same predicates, a predicate that faults included.
C2_SameOutcomeInEveryOrder ==
    (Filtered /\ filter_list # <<>>) => \A p \in Orders : OutcomeIn(p) = outcome

\* C2: whether a record passes is the same in every order of registration.  A
\* record that does not pass fails or faults as the first predicate, in the order
\* of registration, that does not hold for it does; when no predicate faults on
\* the record the outcome is the same in every order.
C2_OrderDecidesFailOrFault ==
    (Filtered /\ filter_list # <<>>) =>
        /\ outcome = FirstNotHolding(UpTo(Len(argv)))
        /\ \A p \in Orders : \A there \in {OutcomeIn(p)} :
               /\ there = "pass" <=> outcome = "pass"
               /\ there = FirstNotHolding(p)
               /\ (\A i \in 1..Len(argv) : Holds(i).exc = "none") => there = outcome

\* The record failed the first predicate, and with the two predicates registered
\* the other way round the expression faults on it.
C2_Witness ==
    /\ Filtered /\ outcome = "fail" /\ Len(argv) = 2
    /\ OutcomeIn(<<2, 1>>) = "fault"

\* The verdict on predicate i of a tested record: the last predicate tested
\* carries the outcome, the ones before it passed.
Verdict(i) == IF i = Len(evaluated) THEN outcome ELSE "pass"

\* The byte size and the type code of a record.
SizeOf(stats) == stats[7]
TypecodeOf(stats) == stats[15]

\* C3: a size predicate with operand "1k" passes exactly the records whose size
\* is strictly less than 1024 and with operand "+1k" exactly those whose size is
\* strictly greater than 1024, so a record of 1024 bytes passes neither.
C3_SizeStrictlyLessOrGreater ==
    Filtered =>
        \A i \in 1..Len(evaluated) :
            /\ argv[i] = Option(w_size, s_1k) =>
                   (Verdict(i) = "pass" <=> SizeOf(rec) < 1024)
            /\ argv[i] = Option(w_size, plus \o s_1k) =>
                   (Verdict(i) = "pass" <=> SizeOf(rec) > 1024)
            /\ argv[i].field = w_size => Verdict(i) \in {"pass", "fail"}

\* A record of 1024 bytes was tested with "+1k" and failed.
C3_Witness ==
    /\ Filtered /\ outcome = "fail" /\ evaluated = <<1>>
    /\ argv[1] = Option(w_size, plus \o s_1k)
    /\ SizeOf(rec) = 1024

\* The type word of a type code, a broken link counting as a link.
TypeWordOf(typecode) ==
    CASE typecode = S_IFREG -> w_regular
      [] typecode = S_IFDIR -> w_dir
      [] typecode \in {S_IFLNK, BROKEN_LINK} -> w_link

\* The type words the operands of the type options denote.
TypeWordsDenoted ==
    (<<"d">> :> {w_dir}) @@ (<<"l">> :> {w_link})
      @@ ((w_dir \o comma \o w_link) :> {w_dir, w_link})

\* C4: a file-type predicate with the words W passes exactly the records whose
\* type is not in W, and with +W exactly those whose type is in W, a broken link
\* (type code 0 or S_IFLNK) being of type link in both forms.
C4_TypeExcludeInclude ==
    Filtered =>
        \A i \in 1..Len(evaluated) :
            argv[i].field = w_Typecode =>
                IF argv[i].value[1] = "+"
                THEN Verdict(i) = "pass" <=>
                         TypeWordOf(TypecodeOf(rec))
                             \in TypeWordsDenoted[Tail(argv[i].value)]
                ELSE Verdict(i) = "pass" <=>
                         TypeWordOf(TypecodeOf(rec)) \notin TypeWordsDenoted[argv[i].value]

\* A broken link (type code 0) was tested with the operand "l" and excluded.
C4_Witness ==
    /\ Filtered /\ outcome = "fail" /\ evaluated = <<1>>
    /\ argv[1] = Option(w_Typecode, <<"l">>)
    /\ TypecodeOf(rec) = BROKEN_LINK

\* The options of the model whose operand is bad: an unparsable size, an operand
\* that is empty (with or without the '+'), an unknown type letter, type letters
\* read from a word without a comma, an unknown user or group, an unparsable
\* time, an unbalanced regular expression, an expression that raises when tried
\* and an expression that does not compile.
BadOptions ==
    {Option(w_size, s_10KB), Option(w_size, plus), Option(w_size, <<>>),
     Option(w_Typecode, <<"x">>), Option(w_Typecode, w_dir),
     Option(w_uid, s_root \o comma \o s_nobody), Option(w_gid, s_nobody),
     Option(w_mtime, t_2days), Option(w_name, <<"(", "a">>),
     Option(w_python, ExprUidOrSize(<<"0">>, s_10KB)),
     Option(w_python, ExprSyntaxError)}

\* C5: add_filter raises on a bad operand and leaves filter_list as it was, and
\* the run then never reaches show_paths: every option converted so far was a
\* good one, a run that ended in the conversion ended on a bad operand with the
\* predicates registered before it unchanged and no record filtered, and a run
\* that reached show_paths had no bad operand.
C5_EagerAtomicValidation ==
    /\ \A i \in 1..(argi - 1) : argv[i] \notin BadOptions
    /\ Len(filter_list) = argi - 1
    /\ pc = "config_error" =>
           /\ argv[argi] \in BadOptions
           /\ result.exc # "none"
           /\ filter_list = prev_filter_list
           /\ ~Filtered
    /\ pc \in {"show_paths", "crashed"} =>
           \A i \in 1..Len(argv) : argv[i] \notin BadOptions
    /\ Filtered => pc \in {"show_paths", "crashed"}

\* The second option was "+" alone: add_filter raised with the first predicate
\* still the only one registered.
C5_Witness ==
    /\ pc = "config_error" /\ argi = 2
    /\ argv[2] = Option(w_size, plus)
    /\ Len(filter_list) = 1 /\ filter_list = prev_filter_list

---------------------------------------------------------------------------
(* sort_stats: main completes OPTS.sort, then the records of a group are   *)
(* sorted.  input holds OPTS.sort (empty when the option is not given),    *)
(* statlist the list sort_stats is called with and sorted the list after.  *)

MaxSortLen == 3

\* The code point of a character of a file name.
Ord(c) ==
    CASE c = "." -> 46 [] c = "/" -> 47 [] c = "B" -> 66 [] c = "a" -> 97 [] c = "b" -> 98
      [] c = "e" -> 101 [] c = "h" -> 104 [] c = "l" -> 108 [] c = "s" -> 115
      [] c = "x" -> 120 [] c = "z" -> 122

\* Python's < on strings: by code point, a proper prefix first.
RECURSIVE StrLess(_, _)
StrLess(a, b) ==
    IF b = <<>> THEN FALSE
    ELSE IF a = <<>> THEN TRUE
    ELSE IF Ord(a[1]) # Ord(b[1]) THEN Ord(a[1]) < Ord(b[1])
    ELSE StrLess(Tail(a), Tail(b))

\* The fields whose value is a string.
string_field_letters == {"p", "n", "f", "t"}

\* Python's < on two values of the field letter.
KeyLess(letter, x, y) == IF letter \in string_field_letters THEN StrLess(x, y) ELSE x < y

\* list[::-1]
Reversed(list) == [i \in 1..Len(list) |-> list[Len(list) + 1 - i]]

\* x put into a list sorted on the field letter, behind the entries that do not
\* sort after it.
RECURSIVE Inserted(_, _, _)
Inserted(list, x, letter) ==
    IF list = <<>> THEN <<x>>
    ELSE IF KeyLess(letter, StatsItem(x, letter), StatsItem(list[Len(list)], letter))
    THEN Append(Inserted(SubSeq(list, 1, Len(list) - 1), x, letter), list[Len(list)])
    ELSE Append(list, x)

\* A stable ascending sort on the field letter.
RECURSIVE StableSorted(_, _)
StableSorted(list, letter) ==
    IF list = <<>> THEN <<>>
    ELSE Inserted(StableSorted(SubSeq(list, 1, Len(list) - 1), letter),
                  list[Len(list)], letter)

\* list.sort(key=itemgetter(letter), reverse=reverse): with reverse the list is
\* reversed, sorted and reversed again, so that equal keys keep their order.
ListSort(list, letter, reverse) ==
    IF reverse THEN Reversed(StableSorted(Reversed(list), letter))
    ELSE StableSorted(list, letter)

\* The loop of sort_stats over the letters sort_fields, taken in the order given.
RECURSIVE SortPasses(_, _, _)
SortPasses(list, sort_fields, reverse) ==
    IF sort_fields = <<>> THEN list
    ELSE SortPasses(ListSort(list, Head(sort_fields), reverse), Tail(sort_fields), reverse)

\* sort_stats with the loop going from the first letter to the last.
sort_stats_first_to_last(list, sort) ==
    SortPasses(list, arg_has_plus(sort).val.str, arg_has_plus(sort).val.plus)

\* sort_stats(statlist) with OPTS.sort = sort.
sort_stats(list, sort) ==
    SortPasses(list, Reversed(arg_has_plus(sort).val.str), arg_has_plus(sort).val.plus)

\* The sort options of a command line: none, or letters with or without '+'.
SortOptions ==
    {<<>>, <<"s">>, <<"+", "s">>, <<"n">>, <<"+", "n">>, <<"s", "u">>, <<"+", "s", "u">>,
     <<"u", "s">>, <<"n", "s">>, <<"+", "u">>}

\* The records of a group: 1 and 2 are equal on every sort key, being files of
\* the same name in two directories, which a merged group holds together.
SortRecords ==
    {Stat(1, 0, 50, 100, NowBase - 86400, <<"d">>, <<"a">>, <<>>, S_IFREG),
     Stat(2, 0, 50, 100, NowBase - 86400, <<"e">>, <<"a">>, <<>>, S_IFREG),
     Stat(3, 1000, 50, 100, NowBase - 86400, <<"d">>, <<"b">>, <<>>, S_IFREG),
     Stat(4, 0, 50, 2048, NowBase - 86400, <<"d">>, <<"B">>, <<>>, S_IFREG),
     Stat(5, 1000, 50, 2048, NowBase - 86400, <<"d">>, <<"a">>, <<>>, S_IFREG)}

InitSort ==
    /\ pc = "main"
    /\ input \in SortOptions
    /\ statlist \in UNION {[1..n -> SortRecords] : n \in 0..MaxSortLen}
    /\ sorted = <<>>
    /\ result = None
    /\ FreshProcess /\ NoFilters
    /\ NoShow

\* main: OPTS.sort defaults to 'n', and 'n' is added to a sort that lacks it.
CompleteSort ==
    /\ pc = "main"
    /\ input' = IF input = <<>> THEN <<"n">>
                ELSE IF "n" \notin SeqToSet(input) THEN Append(input, "n")
                ELSE input
    /\ pc' = "show_paths"
    /\ UNCHANGED <<argv, argi, filter_list, prev_filter_list, known, now, rec, outcome,
                   evaluated, call_log, result, statlist, sorted>>
    /\ UNCHANGED show_vars

\* show_paths sorts a group; no filter is registered, so apply_all_filters has
\* handed the list on as it is.
CallSortStats ==
    /\ pc = "show_paths"
    /\ sorted' = sort_stats(statlist, input)
    /\ pc' = "returned"
    /\ UNCHANGED <<argv, argi, filter_list, prev_filter_list, known, now, rec, outcome,
                   evaluated, call_log, input, result, statlist>>
    /\ UNCHANGED show_vars

NextSort == CompleteSort \/ CallSortStats

SpecSort == InitSort /\ [][NextSort]_vars

\* The key letters of OPTS.sort and its direction.
SortLetters == IF input[1] = "+" THEN Tail(input) ELSE input
Descending == input[1] = "+"

\* x comes strictly before y: on the first key letter the two differ on, x has
\* the smaller value, or the larger one when the direction is descending.
DiffersAt(x, y, k) == StatsItem(x, SortLetters[k]) # StatsItem(y, SortLetters[k])
ComesBefore(x, y) ==
    \E k \in 1..Len(SortLetters) :
        /\ \A j \in 1..(k - 1) : ~DiffersAt(x, y, j)
        /\ DiffersAt(x, y, k)
        /\ IF Descending
           THEN KeyLess(SortLetters[k], StatsItem(y, SortLetters[k]), StatsItem(x, SortLetters[k]))
           ELSE KeyLess(SortLetters[k], StatsItem(x, SortLetters[k]), StatsItem(y, SortLetters[k]))

\* x and y are equal on every key letter.
SameKeys(x, y) == \A k \in 1..Len(SortLetters) : ~DiffersAt(x, y, k)

\* The places of list that hold a record with the keys of x, in order.
PlacesLike(list, x) == SelectSeq(list, LAMBDA y : SameKeys(x, y))

\* C10: sort_stats returns the records it was given ordered by the key letters
\* in the order listed, the first key dominating and later keys breaking the
\* ties of earlier ones, all ascending without a leading '+' and all descending
\* with it; records equal on all keys keep their input order.
C10_FirstKeyDominatesOneDirection ==
    pc = "returned" =>
        /\ Len(sorted) = Len(statlist)
        /\ \A x \in SortRecords :
               Cardinality({i \in 1..Len(sorted) : sorted[i] = x})
                   = Cardinality({i \in 1..Len(statlist) : statlist[i] = x})
        /\ \A i, j \in 1..Len(sorted) : i < j => ~ComesBefore(sorted[j], sorted[i])
        /\ \A x \in SortRecords : PlacesLike(sorted, x) = PlacesLike(statlist, x)

\* Sorted with "+sn": the large record given last comes first though its name is
\* the smallest, and the two records equal on size and name keep their order.
C10_Witness ==
    /\ pc = "returned"
    /\ input = <<"+", "s", "n">>
    /\ Len(statlist) = 3
    /\ statlist[1][2] = 2 /\ statlist[2][2] = 1 /\ statlist[3][2] = 4
    /\ sorted[1][2] = 4 /\ sorted[2][2] = 2 /\ sorted[3][2] = 1

\* The lists that hold the records of list in another order.
Without(list, k) == SubSeq(list, 1, k - 1) \o SubSeq(list, k + 1, Len(list))
RECURSIVE Reorderings(_)
Reorderings(list) ==
    IF list = <<>> THEN {<<>>}
    ELSE UNION {{<<list[k]>> \o rest : rest \in Reorderings(Without(list, k))} :
                    k \in 1..Len(list)}

\* C11 as stated: with the name key added by main, the sorted order of a group
\* is fixed by the records alone: the same records enumerated in any other
\* order are sorted into the same list.
C11_SameOutputForEveryEnumeration ==
    pc = "returned" =>
        /\ "n" \in SeqToSet(input)
        /\ \A other \in Reorderings(statlist) : sort_stats(other, input) = sorted

\* What holds of it: the name key is there when sort_stats is called, and the
\* sorted order is the same for every enumeration of a group whose records differ
\* in name or in another key of the sort, as the entries of one directory do.
SortFixedWhenKeysDiffer ==
    pc = "returned" =>
        /\ "n" \in SeqToSet(input)
        /\ (\A i, j \in 1..Len(statlist) :
                (i # j /\ statlist[i] # statlist[j]) => ~SameKeys(statlist[i], statlist[j]))
               => \A other \in Reorderings(statlist) : sort_stats(other, input) = sorted

---------------------------------------------------------------------------
(* The traversal: show_paths, stat_directory, stat_files, display_statlist *)
(* and OS_command.execute.  A path is a string, its names one or two       *)
(* characters long.                                                        *)

slash == <<"/">>

\* os.path.join(path, f) for a path that is not empty and has no final slash.
Join(path, f) == path \o slash \o f

\* The place of the last slash of a path, 0 when it has none.
LastSlash(path) ==
    IF \A i \in 1..Len(path) : path[i] # "/" THEN 0
    ELSE CHOOSE i \in 1..Len(path) :
             path[i] = "/" /\ \A j \in (i + 1)..Len(path) : path[j] # "/"

\* os.path.dirname(path) and os.path.basename(path).
Dirname(path) == SubSeq(path, 1, LastSlash(path) - 1)
Basename(path) == SubSeq(path, LastSlash(path) + 1, Len(path))

p_a == <<"a">>
p_b == <<"b">>
p_e == <<"e">>
n_x == <<"x">>
n_s == <<"s">>
n_l == <<"l">>
n_h == <<".", "h">>
n_z == <<"z">>

Dir(inode, entries) ==
    [kind |-> "dir", inode |-> inode, uid |-> 1000, size |-> 4096, entries |-> entries,
     to |-> <<>>]
File(inode, uid, size) ==
    [kind |-> "file", inode |-> inode, uid |-> uid, size |-> size, entries |-> <<>>,
     to |-> <<>>]
Link(inode, to) ==
    [kind |-> "link", inode |-> inode, uid |-> 1000, size |-> 1, entries |-> <<>>,
     to |-> to]

\* The file system of the model, the entries of a directory in the order
\* os.listdir gives them: a holds the file x, the directory s (with a large file
\* x of root's), the hidden directory .h (with the file z) and the link l to the
\* directory b; b holds a file x like the one of a, which is also found as
\* a/l/x; e is empty.
Tree ==
    (p_a :> Dir(1, <<n_x, n_s, n_h, n_l>>))
      @@ (Join(p_a, n_x) :> File(2, 1000, 5))
      @@ (Join(p_a, n_s) :> Dir(3, <<n_x>>))
      @@ (Join(Join(p_a, n_s), n_x) :> File(4, 0, 2048))
      @@ (Join(p_a, n_h) :> Dir(5, <<n_z>>))
      @@ (Join(Join(p_a, n_h), n_z) :> File(6, 1000, 7))
      @@ (Join(p_a, n_l) :> Link(7, p_b))
      @@ (Join(Join(p_a, n_l), n_x) :> File(9, 1000, 5))
      @@ (p_b :> Dir(8, <<n_x>>))
      @@ (Join(p_b, n_x) :> File(9, 1000, 5))
      @@ (p_e :> Dir(10, <<>>))

\* os.lstat(fpath) succeeds: the entry is there and can be stat'ed.
CanStat(fpath) == fpath \in DOMAIN Tree /\ fpath \notin faults.nostat

\* os.path.islink(f), and os.path.isdir(f), which follows a link.
IsLink(f) == CanStat(f) /\ Tree[f].kind = "link"
IsDir(f) ==
    /\ CanStat(f)
    /\ \/ Tree[f].kind = "dir"
       \/ Tree[f].kind = "link" /\ Tree[f].to \in DOMAIN Tree /\ Tree[Tree[f].to].kind = "dir"

\* stat.S_IFMT(self.stats[0]) of an entry.
TypecodeOfKind(kind) ==
    CASE kind = "dir" -> S_IFDIR [] kind = "file" -> S_IFREG [] kind = "link" -> S_IFLNK

\* FileStats(fpath).stats when os.lstat succeeds: the ten numbers of lstat, then
\* the directory name, the file name, fpath, the link target and the type code.
FileStats_stats(fpath) ==
    <<TypecodeOfKind(Tree[fpath].kind) + 420, Tree[fpath].inode, 1, 1, Tree[fpath].uid, 50,
      Tree[fpath].size, NowBase - 86400, NowBase - 86400, NowBase - 86400,
      Dirname(fpath), Basename(fpath), fpath,
      IF Tree[fpath].kind = "link" THEN <<"-", ">", " ">> \o Tree[fpath].to ELSE <<>>,
      TypecodeOfKind(Tree[fpath].kind)>>

\* The things a run does that the log keeps.
Event(ev, path) == [ev |-> ev, path |-> path]

\* The state a traversal works on: the log, the four totals, the prompting flag
\* of the command, the memo tables, and whether the run goes on ("running"),
\* has ended in an uncaught exception ("crashed") or in sys.exit ("exited").
Machine(lg, tot, prompting, kn, status) ==
    [log |-> lg, totals |-> tot, with_prompting |-> prompting, known |-> kn,
     status |-> status]

Logged(m, event) == [m EXCEPT !.log = Append(@, event)]
Crashed(m) == [m EXCEPT !.status = "crashed"]

\* sys.stderr.write(... % (path, error[1])) in an except clause: Python 2 writes
\* the message; in Python 3 an OSError cannot be indexed, error[1] raises a
\* TypeError and nothing is written.
ReportError(m, path) ==
    IF python3 THEN Crashed(m) ELSE Logged(m, Event("stderr", path))

\* stat_files(filepaths) from the i-th path on, given the list so far: the
\* machine after, and the list of the records of the paths that could be stat'ed.
RECURSIVE StatFilesFrom(_, _, _, _)
StatFilesFrom(m, filepaths, i, statlist_so_far) ==
    IF i > Len(filepaths) \/ m.status # "running"
    THEN [m |-> m, ret |-> statlist_so_far]
    ELSE IF CanStat(filepaths[i])
    THEN StatFilesFrom(m, filepaths, i + 1,
                       Append(statlist_so_far, FileStats_stats(filepaths[i])))
    ELSE StatFilesFrom(ReportError(m, filepaths[i]), filepaths, i + 1, statlist_so_far)

stat_files(m, filepaths) == StatFilesFrom(m, filepaths, 1, <<>>)

\* apply_all_filters(statlist) from the i-th record on, kept holding the records
\* that passed so far: [exc, val, known], exc being "fault" when passes_filters
\* raised, which apply_all_filters does not catch.
RECURSIVE ApplyAllFrom(_, _, _, _)
ApplyAllNext_fault_is_fail(list, i, kept, r) ==
    ApplyAllFrom(list, i + 1,
                 IF r.outcome = "pass" THEN Append(kept, list[i]) ELSE kept, r.known)
ApplyAllNext(list, i, kept, r) ==
    IF r.outcome = "fault" THEN [exc |-> "fault", val |-> kept, known |-> r.known]
    ELSE ApplyAllFrom(list, i + 1,
                      IF r.outcome = "pass" THEN Append(kept, list[i]) ELSE kept, r.known)
ApplyAllFrom(list, i, kept, kn) ==
    IF i > Len(list) THEN [exc |-> "none", val |-> kept, known |-> kn]
    ELSE ApplyAllNext(list, i, kept, passes_filters(list[i], filter_list, kn, now))

apply_all_filters(list, kn) ==
    IF filter_list = <<>> THEN [exc |-> "none", val |-> list, known |-> kn]
    ELSE ApplyAllFrom(list, 1, <<>>, kn)

\* stats.size, stats.path and stats.filepath: FileStats.__getattr__.
StatsAttr(stats, word) == StatsAt(stats, IndexOf(field_words, word))

\* os.system(cmd) on a file path.
System(m, filepath) == Logged(m, Event("system", filepath))

\* What OS_command.execute does after the prompt was answered, Python 2's
\* raw_input having returned response: n goes back, q leaves the program, a
\* turns the prompting off and runs the command, anything else runs it.
Answered(m, filepath) ==
    CASE response = "n" -> m
      [] response = "q" -> [m EXCEPT !.status = "exited"]
      [] response = "a" -> System([m EXCEPT !.with_prompting = FALSE], filepath)
      [] OTHER -> System(m, filepath)

\* OPTS.os_command.execute(filepath).  With prompting it calls raw_input, which
\* Python 3 does not have: the call raises a NameError.
Execute(m, filepath) ==
    IF ~m.with_prompting THEN System(m, filepath)
    ELSE IF python3 THEN Crashed(m)
    ELSE Answered(m, filepath)

OS_command_execute(m, filepath) == Execute(Logged(m, Event("execute", filepath)), filepath)

\* One pass of the loop of display_statlist: the line of the record, the
\* totals of the group, the command.
Printed(m, stats) ==
    [m EXCEPT !.log = Append(@, [ev |-> "print", stats |-> stats]),
              !.totals.TOTFILES = @ + 1,
              !.totals.TOTSIZE = @ + StatsAttr(stats, w_size)]

RECURSIVE PrintLoop(_, _, _, _)
PrintLoop(m, o, list, i) ==
    IF i > Len(list) \/ m.status # "running" THEN m
    ELSE PrintLoop(IF o.os_command
                   THEN OS_command_execute(Printed(m, list[i]),
                                           StatsAttr(list[i], w_filepath))
                   ELSE Printed(m, list[i]),
                   o, list, i + 1)

\* The "Directory" line of a group that is not merged.
HeaderPath(list) == IF StatsAttr(list[1], w_path) = <<>> THEN <<".">> ELSE StatsAttr(list[1], w_path)
Headed(m, o, list) ==
    IF list # <<>> /\ ~o.quiet /\ ~o.merge THEN Logged(m, Event("header", HeaderPath(list)))
    ELSE m

\* The "Total of" line of a group, and the group's totals added to the grand ones.
Totalled(m, o, list) ==
    IF m.status = "running" /\ list # <<>> /\ ~o.quiet
    THEN [m EXCEPT !.log = Append(@, [ev |-> "total", files |-> m.totals.TOTFILES,
                                      bytes |-> m.totals.TOTSIZE]),
                   !.totals.GTOTFILES = @ + m.totals.TOTFILES,
                   !.totals.GTOTSIZE = @ + m.totals.TOTSIZE]
    ELSE m

\* display_statlist once the list is filtered and sorted.
Displayed(m, o, list) == Totalled(PrintLoop(Headed(m, o, list), o, list, 1), o, list)

\* display_statlist after the filters are applied with the result filtered.
DisplayFiltered_merged_unsorted(m, o, filtered) ==
    IF filtered.exc # "none" THEN Crashed([m EXCEPT !.known = filtered.known])
    ELSE Displayed([m EXCEPT !.known = filtered.known], o,
                   IF o.merge THEN filtered.val ELSE sort_stats(filtered.val, o.sort))
DisplayFiltered(m, o, filtered) ==
    IF filtered.exc # "none" THEN Crashed([m EXCEPT !.known = filtered.known])
    ELSE Displayed([m EXCEPT !.known = filtered.known], o, sort_stats(filtered.val, o.sort))

\* The start of display_statlist: TOTSIZE = TOTFILES = 0.
DisplayCalled_without_reset(m, list) ==
    [m EXCEPT !.log = Append(@, [ev |-> "display", list |-> list])]
DisplayCalled(m, list) ==
    [m EXCEPT !.log = Append(@, [ev |-> "display", list |-> list]),
              !.totals.TOTFILES = 0, !.totals.TOTSIZE = 0]

\* display_statlist(statlist)
display_statlist(m, o, list) ==
    IF m.status # "running" THEN m
    ELSE DisplayFiltered(DisplayCalled(m, list), o, apply_all_filters(list, m.known))

\* What a call that collects records hands back: the machine after it and the
\* list it returns.
Back(m, ret) == [m |-> m, ret |-> ret]

\* os.listdir(path) follows a link; it succeeds on a directory that can be read
\* and gives its entries.
Target(path) == IF Tree[path].kind = "link" THEN Tree[path].to ELSE path
CanList(path) ==
    /\ path \in DOMAIN Tree /\ path \notin faults.nolist
    /\ Target(path) \in DOMAIN Tree /\ Target(path) \notin faults.nolist
    /\ Tree[Target(path)].kind = "dir"
Listdir(path) == Tree[Target(path)].entries

\* The names stat_directory goes on with: all of them, or those without a dot
\* in front.
Visible(o, files) == IF o.all THEN files ELSE SelectSeq(files, LAMBDA f : f[1] # ".")

Filepaths(path, files) == [i \in 1..Len(files) |-> Join(path, files[i])]

\* The subdirectories stat_directory descends into.
Subdirectories_following_links(filepaths) == SelectSeq(filepaths, IsDir)
Subdirectories(filepaths) == SelectSeq(filepaths, LAMBDA f : IsDir(f) /\ ~IsLink(f))

RECURSIVE stat_directory(_, _, _)

\* The loop of stat_directory over its subdirectories, from the i-th on.
RECURSIVE Descend(_, _, _, _)
Descended(r, sub) == Back(sub.m, r.ret \o sub.ret)
Descend(r, o, subdirectories, i) ==
    IF i > Len(subdirectories) \/ r.m.status # "running" THEN r
    ELSE Descend(Descended(r, stat_directory(r.m, o, subdirectories[i])), o,
                 subdirectories, i + 1)

\* stat_directory once the entries are stat'ed: without merge the group is
\* displayed and the list emptied; then, with recursion, the subdirectories.
Grouped(r, o) == IF o.merge THEN r ELSE Back(display_statlist(r.m, o, r.ret), <<>>)
Recursed_into_passing(r, o, filepaths) ==
    IF o.recursive
    THEN Descend(r, o,
                 SelectSeq(Subdirectories(filepaths),
                           LAMBDA f : apply_all_filters(stat_files(r.m, <<f>>).ret,
                                                        r.m.known).val # <<>>),
                 1)
    ELSE r
Recursed(r, o, filepaths) ==
    IF o.recursive THEN Descend(r, o, Subdirectories(filepaths), 1) ELSE r
StatEntries_display_after_recursion(m, o, filepaths) ==
    IF filepaths = <<>> THEN Back(m, <<>>)
    ELSE Grouped(Recursed(stat_files(m, filepaths), o, filepaths), o)
StatEntries(m, o, filepaths) ==
    IF filepaths = <<>> THEN Back(m, <<>>)
    ELSE Recursed(Grouped(stat_files(m, filepaths), o), o, filepaths)

\* stat_directory(path)
stat_directory(m, o, path) ==
    IF m.status # "running" THEN Back(m, <<>>)
    ELSE IF ~CanList(path) THEN Back(ReportError(m, path), <<>>)
    ELSE StatEntries(Logged(m, Event("listdir", path)), o,
                     Filepaths(path, Visible(o, Listdir(path))))

\* What show_paths keeps between two passes of its loop.
Collecting(m, list, ld) == [m |-> m, statlist |-> list, last_dir |-> ld]

\* One pass of the loop of show_paths: a new directory name ends the group
\* collected so far, unless the groups are merged; then the path is listed if it
\* is a directory, and stat'ed as one entry otherwise or with OPTS.directory.
Flushed_even_merged(r, o, path) ==
    IF r.last_dir # {} /\ r.last_dir # {Dirname(path)}
    THEN Collecting(display_statlist(r.m, o, r.statlist), <<>>, r.last_dir)
    ELSE r
Flushed(r, o, path) ==
    IF r.last_dir # {} /\ r.last_dir # {Dirname(path)} /\ ~o.merge
    THEN Collecting(display_statlist(r.m, o, r.statlist), <<>>, r.last_dir)
    ELSE r
Collected(r, sub, this_dir) == Collecting(sub.m, r.statlist \o sub.ret, {this_dir})
Entered(r, o, path) ==
    Collected(r, IF IsDir(path) /\ ~o.directory THEN stat_directory(r.m, o, path)
                 ELSE stat_files(r.m, <<path>>),
              Dirname(path))
ShowPath(r, o, path) == Entered(Flushed(r, o, path), o, path)

\* The end of show_paths: the group left over, and the grand total.
GrandTotal(m, o) ==
    IF m.status = "running" /\ m.totals.TOTFILES # m.totals.GTOTFILES /\ ~o.quiet
    THEN Logged(m, [ev |-> "grand", files |-> m.totals.GTOTFILES,
                    bytes |-> m.totals.GTOTSIZE])
    ELSE m
ShowEnd(r, o) ==
    GrandTotal(IF r.statlist # <<>> THEN display_statlist(r.m, o, r.statlist) ELSE r.m, o)

\* show_paths(paths) from the i-th path on.
RECURSIVE ShowPathsFrom(_, _, _, _)
ShowPathsFrom(r, o, pathlist, i) ==
    IF i > Len(pathlist) THEN ShowEnd(r, o)
    ELSE ShowPathsFrom(ShowPath(r, o, pathlist[i]), o, pathlist, i + 1)

---------------------------------------------------------------------------
(* A run of show_paths                                                     *)

MaxPaths == 2

\* The starting paths of a command line: directories and a file.
StartingPaths == {p_a, p_b, p_e, Join(p_a, n_x), Join(p_a, n_s)}
PathLists == UNION {[1..n -> StartingPaths] : n \in 1..MaxPaths}

\* OPTS after main: OPTS.directory sets OPTS.quiet, OPTS.sort holds the name key.
Options_(all, merge, recursive, quiet, directory, sort, os_command) ==
    [all |-> all, merge |-> merge, recursive |-> recursive, quiet |-> quiet,
     directory |-> directory, sort |-> sort, os_command |-> os_command]
QuietAndDirectory == {<<FALSE, FALSE>>, <<TRUE, FALSE>>, <<TRUE, TRUE>>}
OptionSets(alls, sorts, commands) ==
    {Options_(all, merge, recursive, qd[1], qd[2], sort, command) :
         all \in alls, merge \in BOOLEAN, recursive \in BOOLEAN, qd \in QuietAndDirectory,
         sort \in sorts, command \in commands}

\* What can go wrong in the file system: a/s cannot be listed, or a/x or a/s is
\* gone when it is stat'ed.
FaultChoices ==
    {NoFaults, [nolist |-> {Join(p_a, n_s)}, nostat |-> {}],
     [nolist |-> {}, nostat |-> {Join(p_a, n_x)}],
     [nolist |-> {}, nostat |-> {Join(p_a, n_s)}]}

\* The filter options of the command line: a size below 1k, an expression that
\* raises on the files of root, and one that raises when add_filter tries it.
FilterChoices ==
    {<<>>, <<Option(w_size, s_1k)>>, <<Option(w_python, ExprUidOrSize(s_1000, s_10KB))>>,
     <<Option(w_size, s_1k), Option(w_python, ExprUidOrSize(s_1000, s_10KB))>>,
     <<Option(w_size, s_1k), Option(w_python, ExprUidOrSize(<<"0">>, s_10KB))>>}

\* The runs of the model: traversals with faults of the file system under either
\* interpreter, with or without a filter, traversals with filters and either
\* sort direction, and traversals with a command, prompting or not.  When
\* add_filter raises on an option, main does not come to call show_paths.
FaultyRun ==
    /\ OPTS \in OptionSets(BOOLEAN, {<<"s", "n">>}, {FALSE})
    /\ faults \in FaultChoices /\ python3 \in BOOLEAN
    /\ argv \in {<<>>, <<Option(w_size, s_1k)>>}
    /\ with_prompting = FALSE /\ response = "n"
FilteredRun ==
    /\ OPTS \in OptionSets(BOOLEAN, {<<"s", "n">>, <<"+", "s", "n">>}, {FALSE})
    /\ faults = NoFaults /\ python3 = TRUE
    /\ argv \in FilterChoices \ {<<>>} /\ with_prompting = FALSE /\ response = "n"
CommandRun ==
    /\ OPTS \in OptionSets({FALSE}, {<<"s", "n">>}, {TRUE})
    /\ faults = NoFaults /\ python3 \in BOOLEAN
    /\ argv \in {<<>>, <<Option(w_size, s_1k)>>}
    /\ \/ with_prompting = FALSE /\ response = "n"
       \/ with_prompting = TRUE /\ response \in {"y", "n", "q", "a"}

InitShow ==
    /\ now = NowBase /\ call_log = <<>>
    /\ FaultyRun \/ FilteredRun \/ CommandRun
    /\ \E registered \in {RegisterFrom(argv, 1, [exc |-> "none", filter_list |-> <<>>,
                                                 known |-> EmptyKnown])} :
           /\ filter_list = registered.filter_list /\ known = registered.known
           /\ pc = IF registered.exc = "none" THEN "show_paths" ELSE "config_error"
    /\ argi = Len(filter_list) + 1 /\ prev_filter_list = <<>>
    /\ rec = None /\ outcome = None /\ evaluated = <<>>
    /\ input = None /\ result = None /\ sorted = <<>>
    /\ paths \in PathLists /\ pathi = 1
    /\ statlist = <<>> /\ last_dir = {} /\ log = <<>> /\ totals = ZeroTotals

\* The machine and the collection the variables hold.
Now == Machine(log, totals, with_prompting, known, "running")
Held == Collecting(Now, statlist, last_dir)

\* One pass of the loop of show_paths, for the next starting path.
TakePath ==
    /\ pc = "show_paths"
    /\ pathi <= Len(paths)
    /\ \E r \in {ShowPath(Held, OPTS, paths[pathi])} :
           /\ log' = r.m.log
           /\ totals' = r.m.totals
           /\ with_prompting' = r.m.with_prompting
           /\ known' = r.m.known
           /\ statlist' = r.statlist
           /\ last_dir' = r.last_dir
           /\ pc' = IF r.m.status = "running" THEN pc ELSE r.m.status
    /\ pathi' = pathi + 1
    /\ UNCHANGED <<argv, argi, filter_list, prev_filter_list, now, rec, outcome, evaluated,
                   call_log, input, result, sorted, OPTS, paths, python3, faults, response>>

\* The end of show_paths, after the last starting path.
EndShow ==
    /\ pc = "show_paths"
    /\ pathi > Len(paths)
    /\ \E m \in {ShowEnd(Held, OPTS)} :
           /\ log' = m.log
           /\ totals' = m.totals
           /\ with_prompting' = m.with_prompting
           /\ known' = m.known
           /\ pc' = IF m.status = "running" THEN "done" ELSE m.status
    /\ UNCHANGED <<argv, argi, filter_list, prev_filter_list, now, rec, outcome, evaluated,
                   call_log, input, result, statlist, sorted, OPTS, paths, pathi, last_dir,
                   python3, faults, response>>

NextShow == TakePath \/ EndShow

SpecShow == InitShow /\ [][NextShow]_vars

---------------------------------------------------------------------------
(* Groups of a run.                                                        *)

\* The place in the log of the first event after the i-th that is not a
\* message on stderr, 0 when there is none.
RECURSIVE NextEvent(_)
NextEvent(i) ==
    IF i >= Len(log) THEN 0
    ELSE IF log[i + 1].ev # "stderr" THEN i + 1
    ELSE NextEvent(i + 1)

\* The paths of the entries of directory D the run goes on with, and the
\* records of those that can be stat'ed, in the order of the listing.
EntriesOf(D) == Filepaths(D, Visible(OPTS, Listdir(D)))
StatedIn(filepaths) ==
    [i \in 1..Len(SelectSeq(filepaths, CanStat)) |->
         FileStats_stats(SelectSeq(filepaths, CanStat)[i])]
RecordsOf(D) == StatedIn(EntriesOf(D))

\* The i-th event is the listing of a directory.
Listing(i) == log[i].ev = "listdir"

\* The j-th event is a call of display_statlist with the records of D.
DisplayOf(j, D) == j # 0 /\ log[j].ev = "display" /\ log[j].list = RecordsOf(D)

StatCrashes(D) ==
    python3 /\ \E k \in 1..Len(EntriesOf(D)) : ~CanStat(EntriesOf(D)[k])

Displays == {j \in 1..Len(log) : log[j].ev = "display"}

\* A starting path show_paths stats as one entry, and how often record r was
\* collected by the run so far: once for every listing of its directory and
\* once for every time it was a starting entry.
AsEntry(path) == ~IsDir(path) \/ OPTS.directory
Range(list) == {list[i] : i \in 1..Len(list)}
AllRecords == {FileStats_stats(f) : f \in DOMAIN Tree}
TimesCollected(r) ==
    Cardinality({i \in 1..Len(log) : Listing(i) /\ r \in Range(RecordsOf(log[i].path))})
      + Cardinality({k \in 1..(pathi - 1) :
                         /\ AsEntry(paths[k]) /\ CanStat(paths[k])
                         /\ FileStats_stats(paths[k]) = r})
TimesIn(list, r) == Cardinality({j \in 1..Len(list) : list[j] = r})

---------------------------------------------------------------------------
(* Merge mode against default mode.                                        *)

\* The machine a run starts with: nothing logged, the totals at zero, the memo
\* tables as the registration of the filters left them, and the prompting flag
\* of the command, which only the answer a turns off.
Start ==
    Machine(<<>>, ZeroTotals, with_prompting \/ response = "a",
            RegisterFrom(argv, 1, [exc |-> "none", filter_list |-> <<>>,
                                   known |-> EmptyKnown]).known,
            "running")

\* The run of show_paths over the same paths with OPTS.merge set as given.
RunWithMerge(merge) ==
    ShowPathsFrom(Collecting(Start, <<>>, {}), [OPTS EXCEPT !.merge = merge], paths, 1)

\* What a run shows of its records: everything logged but the "Directory" lines.
Content(lg) == SelectSeq(lg, LAMBDA e : e.ev # "header")

\* How the run of the model has ended.
Ended == pc \in {"done", "crashed", "exited"}
StatusNow == IF pc = "done" THEN "running" ELSE pc

\* C14: for a single starting path that is a directory, without recursion, the
\* run with merge mode on shows the same records in the same order and has the
\* same group totals as the run with merge mode off, under the same filters and
\* sort spec; only the "Directory" line is missing.
C14_MergeAndDefaultSameContent ==
    Ended /\ ~OPTS.merge /\ ~OPTS.recursive /\ ~OPTS.directory
          /\ Len(paths) = 1 /\ IsDir(paths[1]) =>
        \A merged \in {RunWithMerge(TRUE)} :
            /\ Content(merged.log) = Content(log)
            /\ merged.totals = totals
            /\ merged.status = StatusNow

\* The run over a with the size filter and the descending sort has printed the
\* header of a and two records, the larger one first.
C14_Witness ==
    /\ pc = "done" /\ ~OPTS.merge /\ ~OPTS.recursive /\ ~OPTS.directory /\ ~OPTS.quiet
    /\ paths = <<p_a>> /\ Len(filter_list) = 1 /\ OPTS.sort[1] = "+"
    /\ Len(log) = 6
    /\ log[3] = Event("header", p_a)
    /\ log[4].ev = "print" /\ log[5].ev = "print"
    /\ StatsAttr(log[4].stats, w_size) > StatsAttr(log[5].stats, w_size)
    /\ totals.TOTFILES = 2

---------------------------------------------------------------------------
(* Failures of os.listdir and os.lstat.                                    *)

\* How often the run so far was given path as a starting path, and how often it
\* has listed directory D.
TimesStarted(path) == Cardinality({k \in 1..(pathi - 1) : paths[k] = path})
TimesListed(D) == Cardinality({i \in 1..Len(log) : log[i] = Event("listdir", D)})

\* How often the run so far has come to stat f: as a starting entry, and with
\* every listing of its directory that leaves it.
StatAttempts(f) ==
    (IF OPTS.directory \/ Tree[f].kind # "dir" THEN TimesStarted(f) ELSE 0)
      + (IF Basename(f)[1] # "." \/ OPTS.all THEN TimesListed(Dirname(f)) ELSE 0)

\* How often the run so far has come to list D: as a starting directory, and
\* as a subdirectory with every listing of its parent in a recursive run.
ListAttempts(D) ==
    (IF OPTS.directory THEN 0 ELSE TimesStarted(D))
      + (IF OPTS.recursive /\ (Basename(D)[1] # "." \/ OPTS.all)
         THEN TimesListed(Dirname(D)) ELSE 0)

\* The messages on stderr about path so far.
Reports(path) == Cardinality({i \in 1..Len(log) : log[i] = Event("stderr", path)})

\* No call of display_statlist was given a record of f.
NoRecordOf(f) ==
    \A j \in Displays : \A k \in 1..Len(log[j].list) :
        StatsAttr(log[j].list[k], w_filepath) # f

\* Failures are reported once each, leave no record and do not end the run.
FailuresSkipped ==
    /\ \A f \in faults.nostat : Reports(f) = StatAttempts(f) /\ NoRecordOf(f)
    /\ \A D \in faults.nolist : Reports(D) = ListAttempts(D)
    /\ argv = <<>> /\ ~OPTS.os_command => pc # "crashed"

\* C15 as stated: a directory whose listing fails and an entry whose lstat fails
\* are each reported once on stderr, leave no record, and the run goes on to its
\* end.
C15_FailuresReportedAndSkipped == FailuresSkipped

\* Under Python 2 the failures are reported and skipped as C15 says.
FailuresSkippedUnderPython2 == ~python3 => FailuresSkipped

\* Under Python 3 the first failure ends the run without a message.
FailureEndsRunUnderPython3 ==
    python3 =>
        /\ \A f \in faults.nostat : StatAttempts(f) > 0 => pc = "crashed" /\ Reports(f) = 0
        /\ \A D \in faults.nolist : ListAttempts(D) > 0 => pc = "crashed" /\ Reports(D) = 0

---------------------------------------------------------------------------
(* Which directories are listed.                                           *)

\* The name of path is left by the hidden-file rule.
Shown(path) == Basename(path)[1] # "." \/ OPTS.all

\* C16: a directory is listed only as a starting path, and never with
\* OPTS.directory, or in a recursive run as a child of a directory listed
\* before, when the child is a directory, is no symbolic link and its name is
\* left by the hidden-file rule.
C16_DescendOnlyIntoShownRealDirectories ==
    \A j \in 1..Len(log) :
        Listing(j) =>
            \A D \in {log[j].path} :
                /\ ~OPTS.directory
                /\ \/ \E k \in 1..(pathi - 1) : paths[k] = D
                   \/ /\ OPTS.recursive
                      /\ Tree[D].kind = "dir"
                      /\ Shown(D)
                      /\ \E i \in 1..(j - 1) : log[i] = Event("listdir", Dirname(D))

\* A recursive run over a with hidden files included has listed a/s and a/.h
\* but not b, the target of the link a/l.
C16_Witness ==
    /\ pc = "done" /\ OPTS.recursive /\ OPTS.all /\ paths = <<p_a>>
    /\ TimesListed(Join(p_a, n_s)) = 1
    /\ TimesListed(Join(p_a, n_h)) = 1
    /\ TimesListed(p_b) = 0

---------------------------------------------------------------------------
(* Totals.                                                                 *)

\* The records of a list that pass the filters, their number and their sizes.
Passing(list) ==
    SelectSeq(list, LAMBDA s : passes_filters(s, filter_list, known, now).outcome = "pass")
RECURSIVE SizeSum(_)
SizeSum(list) ==
    IF list = <<>> THEN 0 ELSE StatsAttr(Head(list), w_size) + SizeSum(Tail(list))

\* The numbers and sizes of the passing records of the groups displayed among
\* the first j events, summed.
GroupAt(j) == IF log[j].ev = "display" THEN Passing(log[j].list) ELSE <<>>
RECURSIVE FilesUpTo(_)
FilesUpTo(j) == IF j = 0 THEN 0 ELSE FilesUpTo(j - 1) + Len(GroupAt(j))
RECURSIVE BytesUpTo(_)
BytesUpTo(j) == IF j = 0 THEN 0 ELSE BytesUpTo(j - 1) + SizeSum(GroupAt(j))

\* No call of display_statlist was cut short: the run goes on or is at its end.
CallsReturned == pc \in {"show_paths", "done"}

\* The totals of the group are those of the group displayed last.
LastGroupTotals ==
    \A last \in Displays :
        (\A j \in Displays : j <= last) =>
            /\ totals.TOTFILES = Len(GroupAt(last))
            /\ totals.TOTSIZE = SizeSum(GroupAt(last))

\* C17 as stated: with any options, after every call of display_statlist the
\* totals of the group are those of the group just displayed and the grand
\* totals are the sums over all groups displayed so far.
C17_GrandTotalsSumEveryGroup ==
    CallsReturned =>
        /\ LastGroupTotals
        /\ totals.GTOTFILES = FilesUpTo(Len(log))
        /\ totals.GTOTSIZE = BytesUpTo(Len(log))

\* C17: after every call of display_statlist the totals of the group are those
\* of the group just displayed, counted from zero; the grand totals are the
\* sums over all groups displayed so far unless OPTS.quiet is set, and stay at
\* zero when it is.
C17_GrandTotalsSumGroupsUnlessQuiet ==
    CallsReturned =>
        /\ LastGroupTotals
        /\ totals.GTOTFILES = IF OPTS.quiet THEN 0 ELSE FilesUpTo(Len(log))
        /\ totals.GTOTSIZE = IF OPTS.quiet THEN 0 ELSE BytesUpTo(Len(log))

\* The recursive run over a with the size filter has displayed two groups: two
\* records of a pass, the one of a/s does not.
C17_Witness ==
    /\ pc = "done" /\ ~OPTS.quiet /\ ~OPTS.merge /\ OPTS.recursive
    /\ paths = <<p_a>> /\ Len(filter_list) = 1
    /\ Cardinality(Displays) = 2
    /\ totals.TOTFILES = 0 /\ totals.TOTSIZE = 0
    /\ totals.GTOTFILES = 2 /\ totals.GTOTSIZE = 6

---------------------------------------------------------------------------
(* The lines and the command calls of a group.                             *)

\* The lines printed and the calls of the command logged from the i-th event
\* on, up to the next group, listing or message.
RECURSIVE SegmentFrom(_)
SegmentFrom(i) ==
    IF i > Len(log) THEN <<>>
    ELSE IF log[i].ev \in {"display", "listdir", "stderr", "grand"} THEN <<>>
    ELSE IF log[i].ev \in {"print", "execute"} THEN <<log[i]>> \o SegmentFrom(i + 1)
    ELSE SegmentFrom(i + 1)

\* The line of every record of the list in turn, each followed by the call of
\* the command on its path when a command is configured.
RECURSIVE LinesAndCalls(_)
LinesAndCalls(list) ==
    IF list = <<>> THEN <<>>
    ELSE <<[ev |-> "print", stats |-> Head(list)]>>
           \o (IF OPTS.os_command
               THEN <<Event("execute", StatsAttr(Head(list), w_filepath))>> ELSE <<>>)
           \o LinesAndCalls(Tail(list))

\* No record of the list makes a filter raise.
NoFault(list) ==
    \A k \in 1..Len(list) :
        passes_filters(list[k], filter_list, known, now).outcome # "fault"

\* Every group whose records the filters can decide has shown exactly its
\* passing records, in sorted order, each line followed by the command call.
GroupsShown ==
    \A j \in Displays :
        NoFault(log[j].list) =>
            SegmentFrom(j + 1) = LinesAndCalls(sort_stats(Passing(log[j].list), OPTS.sort))

\* C18 as stated: within each displayed group every record that passes the
\* filters is printed once, in sorted order, followed by one call of the
\* command when one is configured; no other record is printed or handed to the
\* command; with or without OPTS.quiet.
C18_PassingRecordsPrintedAndExecuted == GroupsShown

\* The command asks before it runs: the prompting flag at the start of the run.
Prompting == OPTS.os_command /\ Start.with_prompting

\* Without a prompting command, and under Python 2 when the answer is not q,
\* every group is shown as C18 says.
GroupsShownUnlessPrompting ==
    ~Prompting \/ (~python3 /\ response # "q") => GroupsShown

\* With a prompting command under Python 3 the first passing record is printed,
\* the command is called for it and the run ends there; under Python 2 the
\* answer q does the same.
PromptEndsRun ==
    Prompting /\ (python3 \/ response = "q") =>
        \A j \in Displays :
            Passing(log[j].list) # <<>> =>
                /\ pc = IF python3 THEN "crashed" ELSE "exited"
                /\ SegmentFrom(j + 1)
                     = SubSeq(LinesAndCalls(sort_stats(Passing(log[j].list), OPTS.sort)), 1, 2)

---------------------------------------------------------------------------
(* Expressions as filters.                                                 *)

\* The places of the expressions in filter_list.
Expressions == {i \in 1..Len(filter_list) : filter_list[i].comparison = "eval"}

\* What passes_filters does with record s.
Passes(s) == passes_filters(s, filter_list, known, now)

\* Every filter before the i-th is true of record s.
TrueBefore(i, s) ==
    \A h \in 1..(i - 1) :
        \A test \in {TestFilter(filter_list[h], s, known, now)} :
            test.exc = "none" /\ test.val

\* The records of a list up to the first that makes a filter raise.
RECURSIVE UpToFault(_)
UpToFault(list) ==
    IF list = <<>> THEN <<>>
    ELSE IF Passes(Head(list)).outcome = "fault" THEN <<Head(list)>>
    ELSE <<Head(list)>> \o UpToFault(Tail(list))

\* C19 as stated: every registered expression is evaluated for every record
\* that is filtered.
C19_ExpressionEvaluatedForEveryRecord ==
    \A j \in Displays : \A s \in Range(UpToFault(log[j].list)) :
        \A i \in Expressions : i \in Range(Passes(s).evaluated)

\* The option main stopped at is an expression that raises on the record
\* add_filter tries it with.
RejectedExpression ==
    /\ argv[argi].field = w_python
    /\ Eval(argv[argi].value, TestStats, known, now).exc # "none"

\* C19: an expression is tried once by add_filter on the record of the program
\* file; when that raises nothing is registered and show_paths is not called.
\* Once registered it is evaluated for exactly those filtered records for which
\* every filter registered before it is true.  When it raises on a record the
\* run ends there: nothing of the group of that record and nothing after it is
\* displayed.
C19_ExpressionTriedThenFaultIsFatal ==
    /\ pc = "config_error" =>
           RejectedExpression /\ Len(filter_list) = argi - 1 /\ log = <<>>
    /\ pc # "config_error" =>
           \A i \in Expressions :
               Eval(filter_list[i].value, TestStats, known, now).exc = "none"
    /\ \A j \in Displays : \A s \in Range(UpToFault(log[j].list)) :
           \A i \in Expressions :
               i \in Range(Passes(s).evaluated) <=> TrueBefore(i, s)
    /\ \A j \in Displays :
           ~NoFault(log[j].list) => pc = "crashed" /\ Len(log) = j

\* The recursive run over a with the expression as only filter has shown the
\* group of a and ended when a/s/x, a file of root, was filtered.
C19_Witness ==
    /\ pc = "crashed" /\ OPTS.recursive /\ ~OPTS.merge /\ paths = <<p_a>>
    /\ Expressions = {1}
    /\ Cardinality(Displays) = 2
    /\ log[Len(log)] = [ev |-> "display", list |-> RecordsOf(Join(p_a, n_s))]
    /\ Passes(FileStats_stats(Join(Join(p_a, n_s), n_x))).outcome = "fault"

---------------------------------------------------------------------------
(* bytecount_to_string.  A byte count is a sequence of digits to the base  *)
(* 1024, the most significant first and not 0 unless it is the only one;   *)
(* the float fbytes is such a sequence before the point and one after it.  *)

Kilo == 1024
MantissaBits == 53

Decimals == <<"0", "1", "2", "3", "4", "5", "6", "7", "8", "9">>

Front(s) == SubSeq(s, 1, Len(s) - 1)
Last(s) == s[Len(s)]
Zeros(n) == [i \in 1..n |-> 0]
IsZero(d) == \A i \in 1..Len(d) : d[i] = 0

RECURSIVE Normal(_)
Normal(d) == IF Len(d) > 1 /\ d[1] = 0 THEN Normal(Tail(d)) ELSE d

\* d + 1
RECURSIVE Increment(_)
Increment(d) ==
    IF d = <<>> THEN <<1>>
    ELSE IF Last(d) = Kilo - 1 THEN Increment(Front(d)) \o <<0>>
    ELSE Front(d) \o <<Last(d) + 1>>

\* d divided by ten: the quotient and the remainder.
DivTenStep(acc, digit) ==
    [q |-> Append(acc.q, (acc.r * Kilo + digit) \div 10), r |-> (acc.r * Kilo + digit) % 10]
RECURSIVE DivTenFrom(_, _, _)
DivTenFrom(d, i, acc) ==
    IF i > Len(d) THEN acc ELSE DivTenFrom(d, i + 1, DivTenStep(acc, d[i]))
DivTen(d) == DivTenFrom(d, 1, [q |-> <<>>, r |-> 0])

\* "%d" % n
RECURSIVE FormatD(_)
FormatDNext(qr) ==
    IF IsZero(qr.q) THEN <<Decimals[qr.r + 1]>>
    ELSE FormatD(Normal(qr.q)) \o <<Decimals[qr.r + 1]>>
FormatD(d) == FormatDNext(DivTen(d))

\* The number of bits of a digit that is not 0.
Bits(x) == CHOOSE b \in 1..10 : 2^(b - 1) <= x /\ x < 2^b

\* A number is rounded at the bit of value unit of the last digit of keep, the
\* digits of dropped being those after it: above the half it goes up, at the
\* half to the even side.
AboveHalf(low, dropped, unit) ==
    IF unit > 1 THEN low > unit \div 2 \/ (low = unit \div 2 /\ ~IsZero(dropped))
    ELSE dropped[1] > Kilo \div 2 \/ (dropped[1] = Kilo \div 2 /\ ~IsZero(Tail(dropped)))
AtHalf(low, dropped, unit) ==
    IF unit > 1 THEN low = unit \div 2 /\ IsZero(dropped)
    ELSE dropped[1] = Kilo \div 2 /\ IsZero(Tail(dropped))
GoesUp(last, low, dropped, unit) ==
    \/ AboveHalf(low, dropped, unit)
    \/ AtHalf(low, dropped, unit) /\ ((last - low) \div unit) % 2 = 1
AddUnit(keep, unit) ==
    IF Last(keep) + unit = Kilo THEN Increment(Front(keep)) \o <<0>>
    ELSE [keep EXCEPT ![Len(keep)] = @ + unit]
Cleared(keep, unit) == [keep EXCEPT ![Len(keep)] = @ - (@ % unit)]
RoundedAt(keep, dropped, unit) ==
    (IF GoesUp(Last(keep), Last(keep) % unit, dropped, unit)
     THEN AddUnit(Cleared(keep, unit), unit) ELSE Cleared(keep, unit))
      \o Zeros(Len(dropped))

\* float(nbytes): the nearest number of MantissaBits bits, t being the number
\* of bits nbytes has too many.
FloatAt(d, t) ==
    IF t <= 0 THEN d
    ELSE RoundedAt(SubSeq(d, 1, Len(d) - (t \div 10)),
                   SubSeq(d, Len(d) - (t \div 10) + 1, Len(d)), 2^(t % 10))
Float(d) == FloatAt(d, 10 * (Len(d) - 1) + Bits(d[1]) - MantissaBits)

units == <<<<"K">>, <<"M">>, <<"G">>, <<"T">>, <<"P">>>>
bytes_ == <<"b", "y", "t", "e", "s">>

\* fbytes with int before the point and frac after it.
Fbytes(int, frac, unit_idx) == [int |-> int, frac |-> frac, unit_idx |-> unit_idx]

\* The loop of bytecount_to_string: fbytes >= 1024.0 when there are two digits
\* before the point, and fbytes / 1024.0 moves the point by one digit.
RECURSIVE ScaleLoop(_, _, _)
ScaleLoop(int, frac, unit_idx) ==
    IF Len(int) >= 2 /\ unit_idx + 1 < Len(units)
    THEN ScaleLoop(Front(int), <<Last(int)>> \o frac, unit_idx + 1)
    ELSE Fbytes(int, frac, unit_idx)

\* frac times 100, from the last digit on: what comes before the point and
\* what stays after it.
RECURSIVE Times100From(_, _, _, _)
Times100From(frac, i, carry, out) ==
    IF i = 0 THEN [carry |-> carry, frac |-> out]
    ELSE Times100From(frac, i - 1, (frac[i] * 100 + carry) \div Kilo,
                      <<(frac[i] * 100 + carry) % Kilo>> \o out)
Times100(frac) == Times100From(frac, Len(frac), 0, <<>>)

\* The hundredths "%.2f" prints for the part after the point: the nearest
\* number of hundredths, the even one of two that are equally near.
Hundredths_truncated(h) == h.carry
Hundredths(h) ==
    IF h.frac # <<>> /\ GoesUp(h.carry, 0, h.frac, 1) THEN h.carry + 1 ELSE h.carry

TwoDigits(h) == <<Decimals[(h \div 10) + 1], Decimals[(h % 10) + 1]>>

\* "%.2f" % fbytes
Format2fOf(int, h) ==
    FormatD(IF h = 100 THEN Increment(int) ELSE int) \o <<".">> \o TwoDigits(h % 100)
Format2f(int, frac) == Format2fOf(int, Hundredths(Times100(frac)))

\* units[unit_idx], an index below 0 counting from the end.
UnitAt(unit_idx) == units[IF unit_idx < 0 THEN Len(units) + unit_idx + 1 ELSE unit_idx + 1]

Scaled(nbytes, f) ==
    FormatD(nbytes) \o <<" ">> \o bytes_ \o <<" ", "(">> \o Format2f(f.int, f.frac)
      \o <<" ">> \o UnitAt(f.unit_idx) \o bytes_ \o <<")">>

\* bytecount_to_string(nbytes) for nbytes >= 0
bytecount_to_string(nbytes) ==
    IF Len(nbytes) = 1 THEN FormatD(nbytes) \o <<" ">> \o bytes_
    ELSE Scaled(nbytes, ScaleLoop(Float(nbytes), <<>>, -1))


MaxHigh == 3

\* The byte counts of the model: up to MaxHigh digits, then no or three digits
\* 0, then nothing or a last digit, so that counts of more than MantissaBits
\* bits and counts beyond the last unit are among them; and 123456789123.
ByteDigits == {0, 1, 128, 476, 512, 849, Kilo - 1}
Highs == {d \in UNION {[1..n -> ByteDigits] : n \in 1..MaxHigh} : Len(d) = 1 \/ d[1] # 0}
ByteCounts ==
    {d \in {hi \o Zeros(z) \o lo : hi \in Highs, z \in {0, 3},
                                    lo \in {<<>>, <<1>>, <<Kilo - 1>>}} :
         Len(d) = 1 \/ d[1] # 0}
      \cup {<<114, 1001, 582, 643>>}

InitBytes ==
    /\ pc = "bytecount_to_string"
    /\ input \in ByteCounts
    /\ result = None
    /\ FreshProcess /\ NoFilters /\ NoSort
    /\ NoShow

CallBytecount ==
    /\ pc = "bytecount_to_string"
    /\ result' = bytecount_to_string(input)
    /\ pc' = "returned"
    /\ UNCHANGED <<argv, argi, filter_list, prev_filter_list, known, now, rec, outcome,
                   evaluated, call_log, input, statlist, sorted>>
    /\ UNCHANGED show_vars

NextBytes == CallBytecount

SpecBytes == InitBytes /\ [][NextBytes]_vars

\* The number a decimal text stands for, as digits to the base 1024.
IsNumber(text) ==
    /\ text # <<>>
    /\ \A i \in 1..Len(text) : text[i] \in DigitChars
    /\ Len(text) = 1 \/ text[1] # "0"
DecimalValue(c) == CHOOSE i \in 0..9 : Decimals[i + 1] = c
RECURSIVE TimesTenPlus(_, _, _, _)
TimesTenPlus(d, i, carry, out) ==
    IF i = 0 THEN (IF carry = 0 THEN out ELSE <<carry>> \o out)
    ELSE TimesTenPlus(d, i - 1, (d[i] * 10 + carry) \div Kilo,
                      <<(d[i] * 10 + carry) % Kilo>> \o out)
RECURSIVE ValueFrom(_, _, _)
ValueFrom(text, i, acc) ==
    IF i > Len(text) THEN acc
    ELSE ValueFrom(text, i + 1, TimesTenPlus(acc, Len(acc), DecimalValue(text[i]), <<>>))
ValueOf(text) == ValueFrom(text, 1, <<0>>)

\* The parts of the result: the count before the first blank, and in a scaled
\* result the text between "bytes (" and the unit, with two digits after its
\* point.
FirstBlank == CHOOSE i \in 1..Len(result) : result[i] = " " /\ \A j \in 1..(i - 1) : result[j] # " "
CountText == SubSeq(result, 1, FirstBlank - 1)
ScaledText == SubSeq(result, FirstBlank + 8, Len(result) - 8)
WholeText == SubSeq(ScaledText, 1, Len(ScaledText) - 3)
CentsText == SubSeq(ScaledText, Len(ScaledText) - 1, Len(ScaledText))

\* The largest k of 1..5 with 1024^k <= input, 5 when there is none larger.
Exponent ==
    CHOOSE k \in 1..5 : Len(input) > k /\ (k = 5 \/ Len(input) <= k + 1)

\* input / 1024^Exponent: the digits before and after the point.
QuotientWhole == SubSeq(input, 1, Len(input) - Exponent)
QuotientFraction == SubSeq(input, Len(input) - Exponent + 1, Len(input))

\* The hundredths the result shows above the whole part of the quotient.
ShownHundredths ==
    IF ValueOf(WholeText) = QuotientWhole
    THEN 10 * DecimalValue(CentsText[1]) + DecimalValue(CentsText[2])
    ELSE IF ValueOf(WholeText) = Increment(QuotientWhole) /\ CentsText = <<"0", "0">>
    THEN 100
    ELSE -1

\* 100 * 1024^2 times the fraction of the quotient, cut after its second digit.
FractionCut ==
    100 * (QuotientFraction[1] * Kilo + (IF Exponent >= 2 THEN QuotientFraction[2] ELSE 0))
FractionCutShort == Exponent > 2 /\ ~IsZero(SubSeq(QuotientFraction, 3, Exponent))
HalfHundredth == (Kilo * Kilo) \div 2

\* The shown value is the quotient to two decimals: not further than half a
\* hundredth from it (and a millionth more at most, for what float leaves out).
ShownIsQuotient ==
    \A h \in {ShownHundredths} :
        /\ h >= 0
        /\ (2 * h - 1) * HalfHundredth <= FractionCut + (IF FractionCutShort THEN 100 ELSE 0)
        /\ FractionCut <= (2 * h + 1) * HalfHundredth

\* C20: for 0 <= n < 1024 the result is "n bytes"; for n >= 1024 it is the
\* count, then in brackets n / 1024^k to two decimals and the unit K, M, G, T or
\* P for k = 1..5, k being the largest exponent with 1024^k <= n and at most 5;
\* the quotient is in [1, 1024) for n < 1024^6; 1500 gives
\* "1500 bytes (1.46 Kbytes)".
C20_CountThenScaledToLargestUnit ==
    pc = "returned" =>
        /\ IsNumber(CountText) /\ ValueOf(CountText) = input
        /\ Len(input) = 1 => result = CountText \o <<" ">> \o bytes_
        /\ Len(input) > 1 =>
               /\ result = CountText \o <<" ">> \o bytes_ \o <<" ", "(">> \o ScaledText
                             \o <<" ">> \o units[Exponent] \o bytes_ \o <<")">>
               /\ IsNumber(WholeText) /\ ScaledText[Len(ScaledText) - 2] = "."
               /\ \A i \in 1..2 : CentsText[i] \in DigitChars
               /\ ShownIsQuotient
               /\ Len(input) <= 6 => Len(QuotientWhole) = 1 /\ QuotientWhole[1] \in 1..(Kilo - 1)
        /\ input = <<1, 476>> =>
               result = <<"1", "5", "0", "0", " ", "b", "y", "t", "e", "s", " ", "(", "1", ".",
                          "4", "6", " ", "K", "b", "y", "t", "e", "s", ")">>

\* 1500 was converted; its unit is K and the value shown 1.46.
C20_Witness ==
    /\ pc = "returned" /\ input = <<1, 476>>
    /\ Exponent = 1 /\ ScaledText = <<"1", ".", "4", "6">>

---------------------------------------------------------------------------
(* The memo tables: the parsers of the four classes called again and again *)
(* while the clock advances.  call_log records each call with the tables   *)
(* before and after it.                                                    *)

\* The strings the parsers are called with: good and bad ones of each class.
ParseStrings(kind) ==
    CASE kind = "FileSize" -> {s_1k, s_10KB, <<>>}
      [] kind = "Unixtime" -> {t_2w, t_2days}
      [] kind = "Uid" -> {s_root, s_1000, s_nobody}
      [] kind = "Gid" -> {s_staff, s_nobody}

\* FileSize.from_string, Unixtime.str_to_secs, Uid.from_str or Gid.from_str on
\* the string s with the memo tables kn at time clock: [exc, val, tab].
ParseString(kind, s, kn, clock) ==
    CASE kind = "FileSize" -> FileSize_from_string(s, kn.size)
      [] kind = "Unixtime" -> Unixtime_str_to_secs(s, kn.time, clock)
      [] kind = "Uid" -> Uid_from_str(s, kn.user)
      [] kind = "Gid" -> Gid_from_str(s, kn.group)

InitMemo ==
    /\ pc = "from_string"
    /\ input = None /\ result = None
    /\ FreshProcess /\ NoFilters /\ NoSort
    /\ NoShow

\* The clock advances by a second.
TickMemo ==
    /\ pc = "from_string"
    /\ now < NowBase + MaxTicks
    /\ now' = now + 1
    /\ UNCHANGED <<pc, argv, argi, filter_list, prev_filter_list, known, rec, outcome,
                   evaluated, call_log, input, result, statlist, sorted>>
    /\ UNCHANGED show_vars

\* One call of a parser.
CallParser ==
    /\ pc = "from_string"
    /\ Len(call_log) < MaxCalls
    /\ \E kind \in Kinds : \E s \in ParseStrings(kind) :
       \E r \in {ParseString(kind, s, known, now)} :
           /\ known' = Remembered(kind, known, r.tab)
           /\ call_log' = Append(call_log, [kind |-> kind, string |-> s, at |-> now,
                                            exc |-> r.exc, val |-> r.val,
                                            before |-> known,
                                            after |-> Remembered(kind, known, r.tab)])
    /\ UNCHANGED <<pc, argv, argi, filter_list, prev_filter_list, now, rec, outcome,
                   evaluated, input, result, statlist, sorted>>
    /\ UNCHANGED show_vars

NextMemo == TickMemo \/ CallParser

SpecMemo == InitMemo /\ [][NextMemo]_vars

\* The table of a class among the memo tables kn.
TableOf(kind, kn) ==
    CASE kind = "FileSize" -> kn.size
      [] kind = "Unixtime" -> kn.time
      [] kind = "Uid" -> kn.user
      [] kind = "Gid" -> kn.group

\* What call e did to the table of its class, tb before and ta after: the
\* entries there were are kept as they were; the only entry that can be new is
\* that of the string of the call, with the value a successful parse returned;
\* a call that raises leaves the table alone; a call with a string the table
\* holds returns the stored value and leaves the table alone.
WriteOnce(e, tb, ta) ==
    /\ \A k \in DOMAIN tb : k \in DOMAIN ta /\ ta[k] = tb[k]
    /\ DOMAIN ta \ DOMAIN tb \subseteq {e.string}
    /\ e.string \in DOMAIN ta \ DOMAIN tb => e.exc = "none" /\ ta[e.string] = e.val
    /\ e.exc # "none" => ta = tb
    /\ e.exc = "none" => e.string \in DOMAIN ta
    /\ e.string \in DOMAIN tb => e.exc = "none" /\ e.val = tb[e.string] /\ ta = tb

\* C21: the memo tables are write-once per key: a call adds an entry only for
\* its own string and only when the parse succeeds, a failed parse adds none, an
\* entry is never changed or removed, the tables of the other classes are left
\* alone, and every later call with the same string returns the value of the
\* first, whatever the clock has advanced to.
C21_MemoTablesWriteOnce ==
    /\ \A i \in 1..Len(call_log) :
           \A e \in {call_log[i]} :
               /\ e.before = IF i = 1 THEN EmptyKnown ELSE call_log[i - 1].after
               /\ WriteOnce(e, TableOf(e.kind, e.before), TableOf(e.kind, e.after))
               /\ \A kind \in Kinds \ {e.kind} :
                      TableOf(kind, e.after) = TableOf(kind, e.before)
    /\ known = IF call_log = <<>> THEN EmptyKnown ELSE call_log[Len(call_log)].after
    /\ \A i, j \in 1..Len(call_log) :
           /\ i < j
           /\ call_log[i].kind = call_log[j].kind
           /\ call_log[i].string = call_log[j].string
           /\ call_log[i].exc = "none"
           => call_log[j].exc = "none" /\ call_log[j].val = call_log[i].val

\* "2w" parsed twice as a time with the clock advanced in between: the second
\* call returned the time the first computed and left the table alone.
C21_Witness ==
    /\ Len(call_log) = 2
    /\ call_log[1].kind = "Unixtime" /\ call_log[1].string = t_2w
    /\ call_log[2].kind = "Unixtime" /\ call_log[2].string = t_2w
    /\ call_log[1].at < call_log[2].at
    /\ call_log[2].val = call_log[1].at - 1209600
    /\ call_log[2].after = call_log[2].before
    /\ DOMAIN known.time = {t_2w}

---------------------------------------------------------------------------
(* Filters and the traversal.                                              *)

\* The directories the run so far has listed, in the order of the listings.
PathsOf(events) == [i \in 1..Len(events) |-> events[i].path]
ListedDirectories == PathsOf(SelectSeq(log, LAMBDA e : e.ev = "listdir"))

\* The directories a traversal lists that nothing stops, as the file system and
\* OPTS.all, OPTS.recursive and OPTS.directory give them: a starting path that
\* is a directory, unless OPTS.directory is set, and with recursion the
\* subdirectories of a listed directory, depth first; a directory that cannot
\* be listed is left out.
RECURSIVE VisitsBelow(_, _)
RECURSIVE VisitsEach(_, _, _)
VisitsEach(o, directories, i) ==
    IF i > Len(directories) THEN <<>>
    ELSE VisitsBelow(o, directories[i]) \o VisitsEach(o, directories, i + 1)
VisitsBelow(o, D) ==
    IF ~CanList(D) THEN <<>>
    ELSE <<D>> \o (IF o.recursive
                   THEN VisitsEach(o, Subdirectories(Filepaths(D, Visible(o, Listdir(D)))), 1)
                   ELSE <<>>)
RECURSIVE VisitsFrom(_, _, _, _)
VisitsFrom(o, pathlist, i, n) ==
    IF i > n THEN <<>>
    ELSE (IF IsDir(pathlist[i]) /\ ~o.directory THEN VisitsBelow(o, pathlist[i]) ELSE <<>>)
           \o VisitsFrom(o, pathlist, i + 1, n)

IsPrefix(s, t) == Len(s) <= Len(t) /\ s = SubSeq(t, 1, Len(s))

\* The command line has an expression filter.
HasExpression == \E k \in 1..Len(argv) : argv[k].field = w_python

\* C22 as stated: a run that has ended, in a file system without faults and
\* without a command, has listed the directories the file system and the
\* options give, whatever the filters; and in a recursive run a subdirectory
\* whose lstat failed is listed when its parent was.
C22_FiltersNeverCutListing ==
    Ended =>
        /\ faults = NoFaults /\ ~OPTS.os_command =>
               ListedDirectories = VisitsFrom(OPTS, paths, 1, Len(paths))
        /\ OPTS.recursive =>
               \A D \in faults.nostat :
                   Tree[D].kind = "dir" /\ Shown(D) /\ TimesListed(Dirname(D)) > 0
                       => TimesListed(D) > 0

\* C22: the directories listed so far are the first of those the file system
\* and the options give for the starting paths taken, whatever the filters, and
\* all of them as long as the run has not stopped: a directory that fails the
\* filters is descended into like any other.  The listing is cut short only
\* where the run stops in an exception or an exit (an expression filter that
\* raises, a failure of the file system under Python 3, the command), and an
\* entry whose lstat fails is never listed.
C22_ListingCutOnlyByEndOfRun ==
    /\ \A visits \in {VisitsFrom(OPTS, paths, 1, pathi - 1)} :
           /\ IsPrefix(ListedDirectories, visits)
           /\ pc \in {"show_paths", "done"} => ListedDirectories = visits
    /\ pc \in {"crashed", "exited"} =>
           \/ HasExpression
           \/ python3 /\ faults # NoFaults
           \/ OPTS.os_command
    /\ \A D \in faults.nostat : TimesListed(D) = 0

\* The recursive run over a with the size filter: the directory a/s is too large
\* to pass and is not printed, and is listed all the same, its entries given to
\* display_statlist.
C22_Witness ==
    /\ pc = "done" /\ OPTS.recursive /\ ~OPTS.merge /\ paths = <<p_a>>
    /\ argv = <<Option(w_size, s_1k)>> /\ faults = NoFaults
    /\ \E j \in 1..Len(log) : log[j].ev = "print"
    /\ \A j \in 1..Len(log) :
           log[j].ev = "print" => StatsAttr(log[j].stats, w_filepath) # Join(p_a, n_s)
    /\ \E j \in 1..Len(log) :
           /\ log[j] = Event("listdir", Join(p_a, n_s))
           /\ DisplayOf(NextEvent(j), Join(p_a, n_s))

---------------------------------------------------------------------------
(* When the grand total is printed.                                        *)

\* The calls of display_statlist with a record that passes the filters, and
\* the last call of display_statlist of the run.
Surviving == {j \in Displays : Passing(log[j].list) # <<>>}
LastDisplay == {j \in Displays : \A k \in Displays : k <= j}

\* The line of the grand total is in the log.
GrandPrinted == \E j \in 1..Len(log) : log[j].ev = "grand"

\* C23: at the end of show_paths with quiet off, the line of the grand total is
\* printed if and only if at least two displayed groups had a surviving
\* record; a run in which only one group had surviving records prints none,
\* also when a later group is empty after filtering.
C23_GrandTotalIffTwoGroupsSurvive ==
    pc = "done" /\ ~OPTS.quiet => (GrandPrinted <=> Cardinality(Surviving) >= 2)

\* What show_paths does: with quiet off the line is printed when the group
\* displayed last is not all that was counted, which is so with two surviving
\* groups, and with one when the group displayed last is empty after filtering;
\* with quiet on it is never printed; it is the last line of the run.
GrandTotalWhenLastGroupIsNotAll ==
    /\ pc = "done" /\ ~OPTS.quiet =>
           (GrandPrinted <=> \/ Cardinality(Surviving) >= 2
                             \/ Cardinality(Surviving) = 1 /\ LastDisplay \cap Surviving = {})
    /\ OPTS.quiet => ~GrandPrinted
    /\ \A j \in 1..Len(log) : log[j].ev = "grand" => j = Len(log) /\ pc = "done"

\* The recursive run over a with the size filter: the records of a survive, the
\* group of a/s displayed after it is empty, and the grand total is printed.
GrandTotalAfterOneGroup ==
    /\ pc = "done" /\ ~OPTS.quiet /\ ~OPTS.merge /\ OPTS.recursive /\ paths = <<p_a>>
    /\ Cardinality(Displays) = 2 /\ Cardinality(Surviving) = 1
    /\ log[Len(log)] = [ev |-> "grand", files |-> 2, bytes |-> 6]

===========================================================================
